---------------------------- MODULE Spec2Model ----------------------------
(***************************************************************************)
(* Model of the adaptive layout engine of ai-resume-enhancer:              *)
(*   - the three-tier PDF generation step of app/streamlit_app.py,         *)
(*   - the template parser of src/layout_engine/layout_parser.py and the   *)
(*     template file it saves and loads,                                   *)
(*   - the text-to-section mapper of src/layout_engine/template_mapper.py, *)
(*   - the renderer of src/layout_engine/layout_renderer.py, up to the     *)
(*     styles and flowables it hands to the document builder,            *)
(*   - the content of src/layout_engine/fallback_renderer.py (tier 2),     *)
(*   - the exporter of src/pdf_exporter.py with its text cleaning,         *)
(*   - rewrite_bullet and enhance_resume_text of src/gpt_client.py,        *)
(*   - the UI session of app/streamlit_app.py: upload, parse, score and    *)
(*     enhance, and what step 3 displays.                                  *)
(*                                                                         *)
(* Text is a sequence of one-character strings; "\n" is the line break.    *)
(* Lengths on the page are integers: the canvas of tier 3 works in points, *)
(* the parser in thousandths of a PDF unit (so that rounding to two        *)
(* decimals is a real operation), font sizes in half points.  Divisions    *)
(* and the 15% threshold are exact where the code uses binary floats.      *)
(* The renderer works in points with exact fractions [n, d].               *)
(***************************************************************************)
EXTENDS Integers, Sequences, FiniteSets, TLC

VARIABLES
    enhanced_text,   \* st.session_state["enhanced_text"]: the text to render
    templateFile,    \* what templates/sample_template.json holds on disk
    env,             \* outcomes of the external collaborators of this run
    pc,              \* position of the PDF generation step
    mapped,          \* what map_text_to_template returned in tier 1
    pdf_data,        \* the bytes handed to the download button
    attempts,        \* the tiers run so far, in order, each with its outcome
    propagated,      \* TRUE once an exception left the generation step
    page,            \* the reference page handed to parse_template
    num_zones,       \* the number of bands asked of group_blocks_into_zones
    blocks,          \* the spans extracted from the page
    zones,           \* what group_blocks_into_zones returned
    detection,       \* what detect_head_and_sections returned
    stored,          \* the text of the template file on disk
    loaded,          \* what load_template returned
    ppc,             \* position of the template parser
    page_cfg,        \* the page configuration of the template render_resume loads
    styles,          \* the paragraph styles of render_resume
    render_sections, \* the sections render_resume splits the text into
    content,         \* the flowables of render_resume
    total_est_height, \* the estimated height of the text
    rpc,             \* position of render_resume
    posts,           \* the requests generate_resume_pdf posted to PDFShift
    exported,        \* what generate_resume_pdf returned
    xpc,             \* position of the exporter
    original_bullet, \* the bullet handed to rewrite_bullet
    force_paraphrase, \* its force_paraphrase argument
    answers,         \* what the rewriting service answers to successive calls
    calls,           \* the calls rewrite_bullet made to the service
    rewritten,       \* what rewrite_bullet returned
    wpc,             \* position of rewrite_bullet
    uploaded_file,   \* the file in the uploader widget
    session_state,   \* st.session_state: parsed, ats, enhanced_text
    enhanced_from,   \* the resume text the enhanced text was made from
    shown,           \* what the last run of the script displayed in step 3
    upc              \* position of the UI session

chainVars == <<enhanced_text, templateFile, env, pc, mapped, pdf_data, attempts, propagated>>

parseVars == <<page, num_zones, blocks, zones, detection, stored, loaded, ppc>>

renderVars == <<page_cfg, styles, render_sections, content, total_est_height, rpc>>

exportVars == <<posts, exported, xpc>>

rewriteVars == <<original_bullet, force_paraphrase, answers, calls, rewritten, wpc>>

sessionVars == <<uploaded_file, session_state, enhanced_from, shown, upc>>

appVars == <<exportVars, rewriteVars, sessionVars>>

vars == <<chainVars, parseVars, renderVars, appVars>>

\* None: Python's None
None == [none |-> TRUE]

\* The exporter, rewrite_bullet and the UI session at rest.
ExportIdle ==
    /\ posts = <<>>
    /\ exported = None
    /\ xpc = "off"

RewriteIdle ==
    /\ original_bullet = <<>>
    /\ force_paraphrase = FALSE
    /\ answers = <<>>
    /\ calls = <<>>
    /\ rewritten = None
    /\ wpc = "off"

SessionIdle ==
    /\ uploaded_file = None
    /\ session_state = None
    /\ enhanced_from = None
    /\ shown = None
    /\ upc = "off"

AppIdle == ExportIdle /\ RewriteIdle /\ SessionIdle

----------------------------------------------------------------------------
(* Bounds of the model.                                                    *)

MaxLines == 47
MaxChars == 111
MaxSpans == 3
MaxZones == 6
MaxStored == 2
MaxRenderLines == 106

----------------------------------------------------------------------------
(* Characters and str methods.                                             *)

NL == "\n"
CR == "\r"

\* the bullet glyph U+2022
BulletGlyph == "U+2022"

LowerChars == <<"a","b","c","d","e","f","g","h","i","j","k","l","m",
                "n","o","p","q","r","s","t","u","v","w","x","y","z">>
UpperChars == <<"A","B","C","D","E","F","G","H","I","J","K","L","M",
                "N","O","P","Q","R","S","T","U","V","W","X","Y","Z">>

IndexIn(c, s) ==
    IF \E i \in 1..Len(s) : s[i] = c
    THEN CHOOSE i \in 1..Len(s) : s[i] = c
    ELSE 0

lowerChar(c) == IF IndexIn(c, UpperChars) > 0
                THEN LowerChars[IndexIn(c, UpperChars)] ELSE c
upperChar(c) == IF IndexIn(c, LowerChars) > 0
                THEN UpperChars[IndexIn(c, LowerChars)] ELSE c

lower(s) == [i \in 1..Len(s) |-> lowerChar(s[i])]
upper(s) == [i \in 1..Len(s) |-> upperChar(s[i])]

IsSpace(c) == c \in {" ", "\t", NL, CR}

RECURSIVE lstrip(_)
lstrip(s) == IF s # <<>> /\ IsSpace(Head(s)) THEN lstrip(Tail(s)) ELSE s

RECURSIVE rstrip(_)
rstrip(s) == IF s # <<>> /\ IsSpace(s[Len(s)])
             THEN rstrip(SubSeq(s, 1, Len(s) - 1)) ELSE s

strip(s) == rstrip(lstrip(s))

\* needle in hay
contains(hay, needle) ==
    \E i \in 0..(Len(hay) - Len(needle)) :
        SubSeq(hay, i + 1, i + Len(needle)) = needle

endswith(s, c) == s # <<>> /\ s[Len(s)] = c

\* s[:n]
Take(s, n) == SubSeq(s, 1, IF Len(s) < n THEN Len(s) ELSE n)

\* str.splitlines(): the pieces between line breaks ("\n", "\r", "\r\n");
\* a final line break opens no further (empty) line.
IsBreak(c) == c \in {NL, CR}

\* The lines are read off the text: a line begins at the first character
\* and after each line break (the "\n" of a "\r\n" begins none), runs up to
\* the next beginning, and is returned without its line break.
splitlines(s) ==
    LET n == Len(s)
        begins(i) == i = 1 \/ s[i - 1] = NL \/ (s[i - 1] = CR /\ s[i] # NL)
        starts == SelectSeq([i \in 1..n |-> i], begins)
        stop(k) == IF k < Len(starts) THEN starts[k + 1] - 1 ELSE n
        chomp(i, j) ==
            IF j > i /\ s[j - 1] = CR /\ s[j] = NL THEN SubSeq(s, i, j - 2)
            ELSE IF IsBreak(s[j]) THEN SubSeq(s, i, j - 1)
            ELSE SubSeq(s, i, j)
    IN [k \in 1..Len(starts) |-> chomp(starts[k], stop(k))]

RECURSIVE Rep(_, _)
Rep(s, n) ==
    IF n <= 0 THEN <<>>
    ELSE IF n = 1 THEN s
    ELSE LET half == Rep(s, n \div 2)
         IN IF n % 2 = 0 THEN half \o half ELSE half \o half \o s

----------------------------------------------------------------------------
(* Dictionaries keep insertion order: a sequence of <<key, value>> records. *)

dictHas(d, k) == \E i \in 1..Len(d) : d[i].key = k

dictGet(d, k) == d[CHOOSE i \in 1..Len(d) : d[i].key = k].val

\* d[k] = v: a new key goes last, a present key keeps its place.
dictSet(d, k, v) ==
    IF dictHas(d, k)
    THEN LET i == CHOOSE i \in 1..Len(d) : d[i].key = k
         IN SubSeq(d, 1, i - 1) \o <<[key |-> k, val |-> v]>> \o SubSeq(d, i + 1, Len(d))
    ELSE Append(d, [key |-> k, val |-> v])

\* d.setdefault(k, []).append(x)
dictAppend(d, k, x) ==
    IF dictHas(d, k)
    THEN dictSet(d, k, Append(dictGet(d, k), x))
    ELSE Append(d, [key |-> k, val |-> <<x>>])

----------------------------------------------------------------------------
(* template_mapper.map_text_to_template                                    *)

Raise(e) == [raised |-> TRUE, exc |-> e, value |-> <<>>]
Return(v) == [raised |-> FALSE, exc |-> "", value |-> v]

\* (variant: the title looked for as it is written)
RECURSIVE anyTitleInCase(_, _)
anyTitleInCase(line, secs) ==
    IF secs = <<>> THEN "false"
    ELSE IF ~Head(secs).has_title THEN "KeyError"
    ELSE IF contains(line, Head(secs).title) THEN "true"
    ELSE anyTitleInCase(line, Tail(secs))

\* any(sec["title"].lower() in line.lower() for sec in secs): the titles are
\* tried in list order; a section without "title" reached before a match
\* raises KeyError.
RECURSIVE anyTitleIn(_, _)
anyTitleIn(line, secs) ==
    IF secs = <<>> THEN "false"
    ELSE IF ~Head(secs).has_title THEN "KeyError"
    ELSE IF contains(lower(line), lower(Head(secs).title)) THEN "true"
    ELSE anyTitleIn(line, Tail(secs))

templateSections(template) ==
    IF template.has_sections THEN template.sections ELSE <<>>

\* One turn of the loop of lines 24-33; st is [sections, current, exc].
mapLine(raw, template, st) ==
    LET line == strip(raw)
    IN IF line = <<>> THEN st
       ELSE IF template.kind # "object"
       THEN [st EXCEPT !.exc = "AttributeError"]
       ELSE LET m == anyTitleIn(line, templateSections(template))
            IN IF m = "KeyError" THEN [st EXCEPT !.exc = "KeyError"]
               ELSE IF m = "true"
               THEN [st EXCEPT !.current = line,
                               !.sections = dictSet(st.sections, line, <<>>)]
               ELSE [st EXCEPT !.sections = dictAppend(st.sections, st.current, line)]

\* The loop over the lines still to read, left when a turn raises.
RECURSIVE mapLines(_, _, _)
mapLines(lines, template, st) ==
    IF lines = <<>> \/ st.exc # "" THEN st
    ELSE mapLines(Tail(lines), template, mapLine(Head(lines), template, st))

Body == <<"B","o","d","y">>

map_text_to_template(text, template) ==
    LET st0 == [sections |-> <<[key |-> Body, val |-> <<>>]>>,
                current  |-> Body,
                exc      |-> ""]
        st == mapLines(splitlines(text), template, st0)
    IN IF st.exc # "" THEN Raise(st.exc)
       ELSE IF template.kind # "object" THEN Raise("TypeError")
       ELSE IF ~template.has_name THEN Raise("KeyError")
       ELSE Return([template |-> template.template_name, sections |-> st.sections])

----------------------------------------------------------------------------
(* json.dumps(mapped, ensure_ascii=False)                                  *)

QUOTE == "\""
BACKSLASH == "\\"

jsonEscapeChar(c) ==
    IF c \in {QUOTE, BACKSLASH} THEN <<BACKSLASH, c>>
    ELSE IF c = "\t" THEN <<BACKSLASH, "t">>
    ELSE IF c = NL THEN <<BACKSLASH, "n">>
    ELSE <<c>>

\* every character escaped, one half of the string after the other
RECURSIVE jsonEscape(_)
jsonEscape(s) ==
    IF s = <<>> THEN <<>>
    ELSE IF Len(s) = 1 THEN jsonEscapeChar(s[1])
    ELSE LET h == Len(s) \div 2
         IN jsonEscape(SubSeq(s, 1, h)) \o jsonEscape(SubSeq(s, h + 1, Len(s)))

jsonStr(s) == <<QUOTE>> \o jsonEscape(s) \o <<QUOTE>>

\* the items joined by ", "
RECURSIVE jsonJoin(_)
jsonJoin(items) ==
    IF items = <<>> THEN <<>>
    ELSE IF Len(items) = 1 THEN Head(items)
    ELSE Head(items) \o <<",", " ">> \o jsonJoin(Tail(items))

jsonList(lines) ==
    <<"[">> \o jsonJoin([i \in 1..Len(lines) |-> jsonStr(lines[i])]) \o <<"]">>

jsonDict(d) ==
    <<"{">> \o jsonJoin([i \in 1..Len(d) |->
                 jsonStr(d[i].key) \o <<":", " ">> \o jsonList(d[i].val)])
            \o <<"}">>

json_dumps(doc) ==
    <<"{">> \o jsonStr(<<"t","e","m","p","l","a","t","e">>) \o <<":", " ">>
            \o jsonStr(doc.template) \o <<",", " ">>
            \o jsonStr(<<"s","e","c","t","i","o","n","s">>) \o <<":", " ">>
            \o jsonDict(doc.sections) \o <<"}">>

----------------------------------------------------------------------------
(* Rendered documents: a byte stream is a sequence of chunks.  Every PDF    *)
(* writer starts its output with the "%PDF" header and ends it with the     *)
(* "%%EOF" trailer.                                                         *)

Chunk(tag, body) == [tag |-> tag, body |-> body]

\* A text handed to a writer that lays it out itself.
Flow(text) == <<[x |-> 0, y |-> 0, s |-> text]>>

PdfDocument(parts) ==
    <<Chunk("%PDF", <<>>)>> \o parts \o <<Chunk("%%EOF", <<>>)>>

----------------------------------------------------------------------------
(* pdf_exporter._clean_markdown, lines 96-113.  The texts of the model hold *)
(* no "*", no "#" and no "](", so the substitutions of lines 100-106 find   *)
(* nothing to replace; lines 107-113 are modelled in full.                  *)

\* the characters of s at the positions where keep holds
keepWhere(s, keep(_)) ==
    LET marked == [i \in 1..Len(s) |-> [c |-> s[i], k |-> keep(i)]]
        kept == SelectSeq(marked, LAMBDA m : m.k)
    IN [i \in 1..Len(kept) |-> kept[i].c]

\* Line 107: re.sub(r"\r\n", "\n", s)
crlfToLf(s) ==
    keepWhere(s, LAMBDA i : ~(s[i] = CR /\ i < Len(s) /\ s[i + 1] = NL))

\* Line 108: re.sub(r"\n{3,}", "\n\n", s)
MaxBlank == 2
collapseBlank(s) ==
    keepWhere(s, LAMBDA i : ~(s[i] = NL /\ i > MaxBlank
                              /\ \A k \in 1..MaxBlank : s[i - k] = NL))

\* Line 110: re.sub(r"^[\s\-\*<bullet>]{1,3}$", "", s, flags=re.MULTILINE).
\* "^" holds at the start and after each "\n", "$" at the end and before
\* each "\n"; the class holds "\n" too, so a match may run over a line end.
IsMarkerChar(c) == IsSpace(c) \/ c \in {"-", "*", BulletGlyph}
MaxMarker == 3
atLineStart(s, i) == i = 1 \/ s[i - 1] = NL
atLineEnd(s, i) == i = Len(s) + 1 \/ s[i] = NL

\* the length of the match the pattern has at i (greedy), 0 when it has none
markerRun(s, i) ==
    LET fits(k) == /\ i + k - 1 <= Len(s)
                   /\ \A j \in i..(i + k - 1) : IsMarkerChar(s[j])
                   /\ atLineEnd(s, i + k)
        ks == {k \in 1..MaxMarker : fits(k)}
    IN IF ~atLineStart(s, i) \/ ks = {} THEN 0
       ELSE CHOOSE k \in ks : \A o \in ks : o <= k

\* re.sub scans from the left and resumes after each match: the pattern is
\* tried at i unless i lies inside a match found before.
RECURSIVE matchedAt(_, _)
matchedAt(s, i) ==
    /\ markerRun(s, i) > 0
    /\ \A b \in 1..(MaxMarker - 1) :
          i - b >= 1 => ~(markerRun(s, i - b) > b /\ matchedAt(s, i - b))

dropMarkerLines(s) ==
    keepWhere(s, LAMBDA i : ~\E b \in 0..(MaxMarker - 1) :
                   i - b >= 1 /\ markerRun(s, i - b) > b /\ matchedAt(s, i - b))

\* the lines joined by "\n"
RECURSIVE joinLines(_)
joinLines(lines) ==
    IF lines = <<>> THEN <<>>
    ELSE IF Len(lines) = 1 THEN lines[1]
    ELSE LET h == Len(lines) \div 2
         IN joinLines(SubSeq(lines, 1, h)) \o <<NL>>
            \o joinLines(SubSeq(lines, h + 1, Len(lines)))

\* Line 112: "\n".join([ln.rstrip() for ln in s.splitlines()])
trimLines(s) ==
    LET lines == splitlines(s)
    IN joinLines([i \in 1..Len(lines) |-> rstrip(lines[i])])

\* Lines 98-113.
clean_markdown(text) ==
    IF text = <<>> THEN <<>>
    ELSE strip(trimLines(dropMarkerLines(collapseBlank(crlfToLf(text)))))

----------------------------------------------------------------------------
(* pdf_exporter.generate_resume_pdf: the external PDFShift service when an *)
(* API key is configured, the ReportLab writer otherwise or when the call  *)
(* fails.  What the two writers do with the text is theirs; e.pdfshift is  *)
(* the answer of the service ("200", another status, or no answer within   *)
(* the timeout), e.reportlab says whether the ReportLab build raises.      *)

\* Lines 202-210: a status other than 200 is raised as RuntimeError, an
\* exception of requests.post is raised again as it is.
generate_pdf_via_pdfshift(html, e) ==
    IF e.pdfshift = "200" THEN Return(PdfDocument(<<Chunk("pdfshift", Flow(html))>>))
    ELSE IF e.pdfshift = "timeout" THEN Raise("Timeout")
    ELSE Raise("RuntimeError")

\* Lines 155-192; line 165 cleans the text it is given once more.
reportlab_fallback(text, e) ==
    IF e.reportlab = "raise" THEN Raise("ValueError")
    ELSE Return(PdfDocument(<<Chunk("reportlab", Flow(clean_markdown(text)))>>))

\* (variant: the failure of the service leaves the function)
generate_resume_pdf_raising(text, e) ==
    LET cleaned == clean_markdown(text)
    IN IF e.api_key THEN generate_pdf_via_pdfshift(cleaned, e)
       ELSE reportlab_fallback(cleaned, e)

\* Lines 215-274.  The page handed to the service is rendered from the
\* cleaned text (lines 222-257).
generate_resume_pdf(text, e) ==
    LET cleaned == clean_markdown(text)
    IN IF e.api_key
       THEN LET r == generate_pdf_via_pdfshift(cleaned, e)
            IN IF r.raised THEN reportlab_fallback(cleaned, e) ELSE r
       ELSE reportlab_fallback(cleaned, e)

\* Lines 259-274: the requests posted to the service by one call.
pdfshift_posts(text, e) ==
    IF e.api_key THEN <<[source |-> clean_markdown(text)]>> ELSE <<>>

----------------------------------------------------------------------------
(* fallback_renderer.render_fallback_pdf: built by the platypus writer;     *)
(* e.platypus says whether building this text raises.                       *)

\* a flowable of the content: its kind, the name of its style, its text
Block(kind, style, text) == [kind |-> kind, style |-> style, s |-> text]

\* str.isupper(): a cased character, and no cased character in lower case
isupper(s) ==
    /\ \E i \in 1..Len(s) : IndexIn(s[i], UpperChars) > 0
    /\ \A i \in 1..Len(s) : IndexIn(s[i], LowerChars) = 0

TitleMinLen == 3

\* lines 80-84: the first line is the title when it has more than three
\* characters
hasTitle(lines) == lines # <<>> /\ Len(lines[1]) > TitleMinLen

titleBlocks(lines) ==
    << Block("paragraph", "HeaderTitle", strip(lines[1])),
       Block("rule", "", <<>>),
       Block("spacer", "", <<>>) >>

\* lines 87-94, for one line
lineBlock(raw) ==
    LET line == strip(raw)
    IN IF line = <<>> THEN Block("spacer", "", <<>>)
       ELSE IF endswith(line, ":") \/ isupper(line)
       THEN Block("paragraph", "SectionHeader", line)
       ELSE Block("paragraph", "NormalText", line)

FooterText ==
    <<"E","n","h","a","n","c","e","d"," ","b","y"," ","A","I"," ","R","e","s","u","m","e"," ","E","n","h","a","n","c","e","r"," ","U+00A9"," ","2","0","2","5">>

\* lines 96-97
footerBlocks ==
    << Block("spacer", "", <<>>), Block("paragraph", "FooterNote", FooterText) >>

\* lines 78-97
fallbackContent(text) ==
    LET lines == splitlines(text)
        rest == IF hasTitle(lines) THEN Tail(lines) ELSE lines
    IN (IF hasTitle(lines) THEN titleBlocks(lines) ELSE <<>>)
       \o [i \in 1..Len(rest) |-> lineBlock(rest[i])]
       \o footerBlocks

render_fallback_pdf(text, e) ==
    IF e.platypus = "raise" THEN Raise("ValueError")
    ELSE Return(PdfDocument(<<Chunk("platypus", fallbackContent(text))>>))

----------------------------------------------------------------------------
(* streamlit_app.text_to_pdf_bytes                                         *)

LetterHeight == 792
TopOffset == 50
BottomLimit == 60
LineStep == 15
LeftX == 50
MaxLineChars == 110

\* The loop of lines 40-46; cv is the canvas: the pages shown, the
\* operations of the page being drawn, and y.
\* (variant: no page break, every line drawn on the first page)
drawLinesOnePage(lines, cv) ==
    [cv EXCEPT !.page = [i \in 1..Len(lines) |->
                            [x |-> LeftX, y |-> cv.y - (i - 1) * LineStep,
                             s |-> Take(lines[i], MaxLineChars)]],
               !.y = cv.y - Len(lines) * LineStep]

RECURSIVE drawLines(_, _)
drawLines(lines, cv) ==
    IF lines = <<>> THEN cv
    ELSE IF cv.y < BottomLimit
    THEN drawLines(lines, [pages |-> Append(cv.pages, cv.page), page |-> <<>>,
                           y |-> LetterHeight - TopOffset])
    ELSE LET op == [x |-> LeftX, y |-> cv.y, s |-> Take(Head(lines), MaxLineChars)]
         IN drawLines(Tail(lines),
                [cv EXCEPT !.page = Append(cv.page, op), !.y = cv.y - LineStep])

\* Canvas.save(): the page being drawn is shown and the document written
\* to the buffer, which leaves the buffer position at its end.
canvasSave(cv) ==
    LET pages == Append(cv.pages, cv.page)
        data == PdfDocument([i \in 1..Len(pages) |-> Chunk("page", pages[i])])
    IN [data |-> data, pos |-> Len(data)]

\* (variant: the read starts where save() left the position)
seekKeep(buf) == buf

\* buffer.seek(0)
seek0(buf) == [buf EXCEPT !.pos = 0]

bufferRead(buf) == SubSeq(buf.data, buf.pos + 1, Len(buf.data))

text_to_pdf_bytes(text) ==
    LET cv0 == [pages |-> <<>>, page |-> <<>>, y |-> LetterHeight - TopOffset]
        cv == drawLines(splitlines(text), cv0)
    IN Return(bufferRead(seek0(canvasSave(cv))))

----------------------------------------------------------------------------
(* app/streamlit_app.py, "Step 3: Generate Final Resume"                   *)

\* render_resume takes no part in the generation step, nor in parsing.
RenderIdle ==
    /\ page_cfg = <<>>
    /\ styles = <<>>
    /\ render_sections = <<>>
    /\ content = <<>>
    /\ total_est_height = [n |-> 0, d |-> 1]
    /\ rpc = "off"

\* The template parser takes no part in the generation step.
ParserIdle ==
    /\ page = [page_height |-> 0, spans |-> <<>>, backend |-> "none"]
    /\ num_zones = 0
    /\ blocks = <<>>
    /\ zones = <<>>
    /\ detection = <<>>
    /\ stored = <<>>
    /\ loaded = Return(<<>>)
    /\ ppc = "off"

\* Lines 141-142: the template file opened and read as JSON.
openTemplate(file) ==
    IF file.state = "missing" THEN Raise("FileNotFoundError")
    ELSE IF file.state = "malformed" THEN Raise("JSONDecodeError")
    ELSE Return(file.json)

\* the name mapped before line 143 has run
Unbound == [raised |-> TRUE, exc |-> "unbound", value |-> <<>>]

\* Line 143.
mapStep(text, file) ==
    IF openTemplate(file).raised THEN Unbound
    ELSE map_text_to_template(text, openTemplate(file).value)

\* Lines 141-144, the body of the outer try.
tier1(text, file, e) ==
    IF openTemplate(file).raised THEN openTemplate(file)
    ELSE LET m == mapStep(text, file)
         IN IF m.raised THEN m
            ELSE generate_resume_pdf(json_dumps(m.value), e)

\* Line 149, the body of the inner try.
tier2(text, e) == render_fallback_pdf(text, e)

\* Line 151.
tier3(text) == text_to_pdf_bytes(text)

\* Where the step goes after tier 1: "except Exception" (line 146) enters
\* the handler, which runs tier 2.
\* (variants: a handler that goes straight to tier 3, and a try that does
\* not catch)
catchTier1Skip(r) == IF r.raised THEN "tier3" ELSE "done"

catchTier1Leak(r) == IF r.raised THEN "raised" ELSE "done"

catchTier1(r) == IF r.raised THEN "tier2" ELSE "done"

\* After tier 2: "except Exception" (line 150) runs tier 3.
\* (variant: the exception swallowed, nothing rendered)
catchTier2Stop(r) == "done"

catchTier2(r) == IF r.raised THEN "tier3" ELSE "done"

\* Tier 3 runs inside an except clause with no handler of its own.
afterTier3(r) == IF r.raised THEN "raised" ELSE "done"

Outcome(n, r) == [tier |-> n, raised |-> r.raised]

Step3Tier1 ==
    /\ pc = "tier1"
    /\ LET r == tier1(enhanced_text, templateFile, env)
       IN /\ pc' = catchTier1(r)
          /\ pdf_data' = IF r.raised THEN pdf_data ELSE r.value
          /\ attempts' = Append(attempts, Outcome(1, r))
          /\ propagated' = (catchTier1(r) = "raised")
    /\ mapped' = mapStep(enhanced_text, templateFile)
    /\ UNCHANGED <<enhanced_text, templateFile, env, parseVars, renderVars, appVars>>

Step3Tier2 ==
    /\ pc = "tier2"
    /\ LET r == tier2(enhanced_text, env)
       IN /\ pc' = catchTier2(r)
          /\ pdf_data' = IF r.raised THEN pdf_data ELSE r.value
          /\ attempts' = Append(attempts, Outcome(2, r))
    /\ UNCHANGED <<enhanced_text, templateFile, env, mapped, propagated, parseVars, renderVars, appVars>>

Step3Tier3 ==
    /\ pc = "tier3"
    /\ LET r == tier3(enhanced_text)
       IN /\ pc' = afterTier3(r)
          /\ pdf_data' = IF r.raised THEN pdf_data ELSE r.value
          /\ attempts' = Append(attempts, Outcome(3, r))
          /\ propagated' = r.raised
    /\ UNCHANGED <<enhanced_text, templateFile, env, mapped, parseVars, renderVars, appVars>>

----------------------------------------------------------------------------
(* Inputs.                                                                 *)

ScenarioText ==
    <<"J","o","h","n"," ","D","o","e",NL>>
    \o <<"E","x","p","e","r","i","e","n","c","e",NL>>
    \o <<"-"," ","B","u","i","l","t"," ","X",NL>>
    \o <<"S","k","i","l","l","s",NL>>
    \o <<"P","y","t","h","o","n",","," ","S","Q","L">>

SampleTexts ==
    { <<>>,
      <<" ">>,
      <<"P","y","t","h","o","n">>,
      ScenarioText,
      <<"a",NL,NL," ","b"," ",NL>>,
      <<"S","K","I","L","L","S",NL,"a",NL,"s","k","i","l","l","s",NL,"b">>,
      <<"S","k","i","l","l","s",NL,"a",NL,"S","k","i","l","l","s",NL,"b">>,
      <<"s","a","y"," ",QUOTE,"h","i",QUOTE>>,
      <<NL,"J","o","h","n"," ","D","o","e",NL,"S","K","I","L","L","S",NL,
        "T","o","o","l","s",":",NL,NL,"S","Q","L">>,
      <<"J","a","n","e"," ","R","o","e",NL,"S","K","I","L","L","S",NL,
        "T","o","o","l","s",":",NL,NL,"S","Q","L">> }

\* n lines of one character, and one line of k characters
ManyLines(n) == Rep(<<"x", NL>>, n)
LongLine(k) == Rep(<<"x">>, k)

Texts ==
    SampleTexts
    \cup { ManyLines(n) : n \in 1..MaxLines }
    \cup { LongLine(k) : k \in (MaxLineChars - 1)..MaxChars }

Sec(t) == [has_title |-> TRUE, title |-> t]
SecNoTitle == [has_title |-> FALSE, title |-> <<>>]

ScenarioSections ==
    << Sec(<<"H","e","a","d","e","r">>),
       Sec(<<"E","x","p","e","r","i","e","n","c","e">>),
       Sec(<<"S","k","i","l","l","s">>) >>

Classic == <<"c","l","a","s","s","i","c">>

JsonArray ==
    [kind |-> "array", has_name |-> FALSE, template_name |-> <<>>,
     has_sections |-> FALSE, sections |-> <<>>]

JsonObject(named, hasSecs, secs) ==
    [kind |-> "object", has_name |-> named,
     template_name |-> IF named THEN Classic ELSE <<>>,
     has_sections |-> hasSecs, sections |-> secs]

TemplateFiles ==
    { [state |-> "missing", json |-> JsonArray],
      [state |-> "malformed", json |-> JsonArray],
      [state |-> "ok", json |-> JsonArray] }
    \cup { [state |-> "ok", json |-> JsonObject(named, TRUE, secs)] :
             named \in BOOLEAN,
             secs \in { <<>>, ScenarioSections,
                        <<Sec(<<"S","k","i","l","l","s">>), SecNoTitle>> } }
    \cup { [state |-> "ok", json |-> JsonObject(TRUE, FALSE, <<>>)] }

Envs ==
    { e \in [api_key : BOOLEAN, pdfshift : {"200", "error", "unused"},
             reportlab : {"ok", "raise"}, platypus : {"ok", "raise"}] :
        (e.pdfshift = "unused") <=> ~e.api_key }

\* The script reruns on the next interaction, with the session's text; the
\* external collaborators may answer differently this time.
Rerun ==
    /\ pc \in {"done", "raised"}
    /\ pc' = "tier1"
    /\ env' \in Envs
    /\ mapped' = Unbound
    /\ pdf_data' = <<>>
    /\ attempts' = <<>>
    /\ propagated' = FALSE
    /\ UNCHANGED <<enhanced_text, templateFile, parseVars, renderVars, appVars>>

InitChain ==
    /\ enhanced_text \in Texts
    /\ templateFile \in TemplateFiles
    /\ env \in Envs
    /\ pc = "tier1"
    /\ mapped = Unbound
    /\ pdf_data = <<>>
    /\ attempts = <<>>
    /\ propagated = FALSE
    /\ ParserIdle
    /\ RenderIdle
    /\ AppIdle

NextChain == Step3Tier1 \/ Step3Tier2 \/ Step3Tier3 \/ Rerun

SpecChain == InitChain /\ [][NextChain]_vars

----------------------------------------------------------------------------
(* Claims about the fallback chain.                                        *)

LastAttempt == attempts[Len(attempts)]

\* The bytes of the first tier that completes without raising, on the
\* inputs of this run.
FirstSuccessBytes ==
    LET r1 == tier1(enhanced_text, templateFile, env)
        r2 == tier2(enhanced_text, env)
        r3 == tier3(enhanced_text)
    IN IF ~r1.raised THEN r1.value
       ELSE IF ~r2.raised THEN r2.value
       ELSE r3.value

\* C1: the tiers are attempted in the order 1, 2, 3; tier 2 is entered only
\* after tier 1 raised, tier 3 only after tiers 1 and 2 both raised, and
\* when the step is done pdf_data holds the bytes of the first tier that
\* completed without raising.
C1_StrictOrder ==
    /\ \A i \in 1..Len(attempts) :
          /\ attempts[i].tier = i
          /\ (i < Len(attempts) => attempts[i].raised)
    /\ (pc = "tier1" => attempts = <<>>)
    /\ (pc = "tier2" => Len(attempts) = 1 /\ attempts[1].raised)
    /\ (pc = "tier3" => Len(attempts) = 2 /\ attempts[2].raised)
    /\ (pc = "done" => /\ attempts # <<>>
                       /\ ~LastAttempt.raised
                       /\ pdf_data = FirstSuccessBytes)

\* Tier 1 raised, tier 2 completed: the caller holds tier 2's bytes.
C1_Witness ==
    /\ pc = "done"
    /\ Len(attempts) = 2
    /\ pdf_data = tier2(enhanced_text, env).value

\* C2: an exception of tier 1 or of tier 2 does not leave the step: the
\* next tier is entered instead; an exception that did leave the step was
\* raised by tier 3.
C2_CaughtLocally ==
    /\ (propagated \/ pc = "raised") =>
          (attempts # <<>> /\ LastAttempt.tier = 3 /\ LastAttempt.raised)
    /\ (attempts # <<>> /\ LastAttempt.tier = 1 /\ LastAttempt.raised)
          => pc = "tier2"
    /\ (attempts # <<>> /\ LastAttempt.tier = 2 /\ LastAttempt.raised)
          => pc = "tier3"

\* Tiers 1 and 2 both raised and the step went on to tier 3.
C2_Witness ==
    /\ pc = "tier3"
    /\ Len(attempts) = 2
    /\ attempts[1].raised /\ attempts[2].raised
    /\ ~propagated

TierPc(n) == IF n = 1 THEN "tier1" ELSE IF n = 2 THEN "tier2" ELSE "tier3"

\* C3: whatever tiers 1 and 2 do, a run of the step ends with a non-empty
\* byte stream in pdf_data.  The step is straight-line code, so a run ends
\* when no tier is left to enter: it is never left without a document (no
\* exception leaves it), while it is not done the next of the three tiers
\* is the one to run, and when it is done pdf_data is not empty.
C3_AlwaysADocument ==
    /\ pc \in {"tier1", "tier2", "tier3", "done"}
    /\ (pc # "done" => Len(attempts) < 3 /\ pc = TierPc(Len(attempts) + 1))
    /\ (pc = "done" => Len(pdf_data) > 0)

\* Both tiers failed and the step still ended with a document.
C3_Witness ==
    /\ pc = "done"
    /\ Len(attempts) = 3
    /\ attempts[1].raised /\ attempts[2].raised
    /\ Len(pdf_data) > 0

\* C4: tier 3 never raises and returns at least one byte, for every text.
C4_Tier3Total ==
    (Len(attempts) = 3) =>
        /\ ~attempts[3].raised
        /\ pc = "done"
        /\ Len(pdf_data) > 0

\* Tier 3 rendered the empty string.
C4_Witness ==
    /\ enhanced_text = <<>>
    /\ Len(attempts) = 3
    /\ pc = "done"
    /\ Len(pdf_data) > 0

----------------------------------------------------------------------------
(* Claims about the section mapper, on the call of tier 1.                 *)

Mapped == mapped.exc # "unbound"

TemplateJson == templateFile.json

\* the input lines that are not blank, trimmed, in order
InputLines ==
    LET ls == splitlines(enhanced_text)
    IN SelectSeq([i \in 1..Len(ls) |-> strip(ls[i])], LAMBDA l : l # <<>>)

\* the line contains the name of a section of the template, whatever the
\* case of the letters
NamesASection(l) ==
    \E i \in 1..Len(TemplateJson.sections) :
        /\ TemplateJson.sections[i].has_title
        /\ contains(lower(l), lower(TemplateJson.sections[i].title))

\* the places of the heading lines among the lines L
HeadingLines(L) == { i \in 1..Len(L) : NamesASection(L[i]) }

\* the section that is current when line i of L is read, H being the places
\* of the heading lines: opened by the last heading line before it, "Body"
\* when there is none
CurrentAt(L, H, i) ==
    LET before == { j \in H : j < i }
    IN IF before = {} THEN Body
       ELSE L[CHOOSE j \in before : \A h \in before : h <= j]

\* line i was appended to a section that no later heading line opened anew
Held(L, H, i) ==
    /\ i \notin H
    /\ ~\E j \in H : j > i /\ L[j] = CurrentAt(L, H, i)

\* the lines held by the section named k, from line i on
RECURSIVE HeldBy(_, _, _, _)
HeldBy(L, H, k, i) ==
    IF i > Len(L) THEN <<>>
    ELSE (IF Held(L, H, i) /\ CurrentAt(L, H, i) = k THEN <<L[i]>> ELSE <<>>)
         \o HeldBy(L, H, k, i + 1)

FirstLineOf(L, H, k) ==
    CHOOSE i \in H : L[i] = k /\ \A j \in H : L[j] = k => i <= j

Str_JohnDoe == <<"J","o","h","n"," ","D","o","e">>
Str_Experience == <<"E","x","p","e","r","i","e","n","c","e">>
Str_BuiltX == <<"-"," ","B","u","i","l","t"," ","X">>
Str_Skills == <<"S","k","i","l","l","s">>
Str_PythonSQL == <<"P","y","t","h","o","n",","," ","S","Q","L">>

ScenarioMapped ==
    << [key |-> Body, val |-> <<Str_JohnDoe>>],
       [key |-> Str_Experience, val |-> <<Str_BuiltX>>],
       [key |-> Str_Skills, val |-> <<Str_PythonSQL>>] >>

\* C15: the mapper starts with the section "Body"; a non-blank line that
\* contains the name of a template section, whatever the case, opens a new
\* section named after the line, any other non-blank line goes to the
\* current section, blank lines go nowhere; the sections are in the order
\* their names were first seen.  Sections Header, Experience, Skills and the
\* text "John Doe / Experience / - Built X / Skills / Python, SQL" give
\* Body: [John Doe], Experience: [- Built X], Skills: [Python, SQL].
C15_MapperRule ==
    (Mapped /\ ~mapped.raised) =>
        LET d == mapped.value.sections
            L == InputLines
            H == HeadingLines(L)
        IN /\ d[1].key = Body
           /\ \A a, b \in 1..Len(d) : d[a].key = d[b].key => a = b
           /\ \A i \in H : dictHas(d, L[i])
           /\ \A a \in 2..Len(d) :
                 /\ \E i \in H : L[i] = d[a].key
                 /\ \A b \in 2..(a - 1) :
                       FirstLineOf(L, H, d[b].key) < FirstLineOf(L, H, d[a].key)
           /\ \A a \in 1..Len(d) : d[a].val = HeldBy(L, H, d[a].key, 1)
           /\ (enhanced_text = ScenarioText /\ TemplateJson.sections = ScenarioSections
                  => d = ScenarioMapped)

\* The text and the sections of the scenario were mapped.
C15_Witness ==
    /\ Mapped /\ ~mapped.raised
    /\ enhanced_text = ScenarioText
    /\ TemplateJson.sections = ScenarioSections
    /\ Len(mapped.value.sections) = 3

\* C16: the mapper fails for no text and no template; for a template
\* without sections the result is the single section "Body" with all the
\* non-blank lines of the text.
C16_MapperNeverFails ==
    (Mapped /\ TemplateJson.kind = "object") =>
        /\ ~mapped.raised
        /\ (templateSections(TemplateJson) = <<>> =>
               mapped.value.sections = <<[key |-> Body, val |-> InputLines]>>)

----------------------------------------------------------------------------
(* layout_engine/layout_parser.py                                          *)

\* None, for a font size
Null == 0 - 1

\* the truth value Python gives a font size: None and 0.0 are false
truthy(size) == size # Null /\ size # 0

\* round(x, 2) on a length in thousandths: to the nearest hundredth, a tie
\* to the even one.
round2(v) ==
    LET q == v \div 10
        r == v % 10
    IN IF r < 5 THEN q * 10
       ELSE IF r > 5 THEN (q + 1) * 10
       ELSE IF q % 2 = 0 THEN q * 10 ELSE (q + 1) * 10

\* a bbox is <<x0, y0, x1, y1>>
round_bbox(bbox) == [i \in 1..4 |-> round2(bbox[i])]

SeqMin(q) == CHOOSE v \in {q[i] : i \in 1..Len(q)} : \A i \in 1..Len(q) : v <= q[i]
SeqMax(q) == CHOOSE v \in {q[i] : i \in 1..Len(q)} : \A i \in 1..Len(q) : v >= q[i]

\* (min(xs), min(ys), max(xs), max(ys)) over the corners of the items
unionBox(items) ==
    LET xs == [i \in 1..Len(items) |-> items[i].bbox[1]]
              \o [i \in 1..Len(items) |-> items[i].bbox[3]]
        ys == [i \in 1..Len(items) |-> items[i].bbox[2]]
              \o [i \in 1..Len(items) |-> items[i].bbox[4]]
    IN <<SeqMin(xs), SeqMin(ys), SeqMax(xs), SeqMax(ys)>>

\* extract_with_fitz / extract_with_pdfplumber on the spans the page holds:
\* the bbox rounded, spans of blank text skipped; fitz reports 0.0 for a
\* span without a size, pdfplumber reports neither font nor size.
RECURSIVE extractFrom(_, _, _)
extractFrom(spans, i, backend) ==
    IF i > Len(spans) THEN <<>>
    ELSE LET sp == spans[i]
             item == [text |-> sp.text,
                      size |-> IF backend # "fitz" THEN Null
                               ELSE IF sp.size = Null THEN 0 ELSE sp.size,
                      bbox |-> round_bbox(sp.bbox),
                      block_no |-> i - 1]
         IN (IF strip(sp.text) # <<>> THEN <<item>> ELSE <<>>)
            \o extractFrom(spans, i + 1, backend)

extract(pg) == extractFrom(pg.spans, 1, pg.backend)

\* int(cy // band_height) with cy = (y0 + y1) / 2 and
\* band_height = page_height / num_zones
bandOfCenter(bbox, page_height, n) ==
    ((bbox[2] + bbox[4]) * n) \div (2 * page_height)

min(a, b) == IF a < b THEN a ELSE b

\* line 146
zoneIndex(b, page_height, n) == min(bandOfCenter(b.bbox, page_height, n), n - 1)

\* zones[idx] of a list of n zones: a negative idx counts from the end,
\* an idx below -n raises IndexError.
listSlot(idx, n) == IF idx >= 0 THEN idx ELSE n + idx

inRange(idx, n) == idx >= 0 - n /\ idx < n

group_blocks_into_zones(bs, page_height, n) ==
    IF \E i \in 1..Len(bs) : ~inRange(zoneIndex(bs[i], page_height, n), n)
    THEN Raise("IndexError")
    ELSE LET itemsOf(k) ==
                 SelectSeq(bs, LAMBDA b : listSlot(zoneIndex(b, page_height, n), n) = k)
             summary(k) ==
                 IF itemsOf(k) = <<>> THEN <<>>
                 ELSE <<[zone_index |-> k,
                         bbox |-> round_bbox(unionBox(itemsOf(k))),
                         items |-> itemsOf(k)]>>
             RECURSIVE out(_)
             out(k) == IF k >= n THEN <<>> ELSE summary(k) \o out(k + 1)
         IN Return(out(0))


\* (variant: the span put first whatever its top)
insertFirst(sorted, b) == <<b>> \o sorted

\* sorted(blocks, key=lambda b: b["bbox"][1]): a stable sort
RECURSIVE insertByTop(_, _)
insertByTop(sorted, b) ==
    IF sorted = <<>> THEN <<b>>
    ELSE IF Head(sorted).bbox[2] <= b.bbox[2]
    THEN <<Head(sorted)>> \o insertByTop(Tail(sorted), b)
    ELSE <<b>> \o sorted

RECURSIVE sortByTop(_)
sortByTop(bs) ==
    IF bs = <<>> THEN <<>>
    ELSE insertByTop(sortByTop(SubSeq(bs, 1, Len(bs) - 1)), bs[Len(bs)])

\* sorted(sizes)
RECURSIVE insertNum(_, _)
insertNum(sorted, v) ==
    IF sorted = <<>> THEN <<v>>
    ELSE IF Head(sorted) <= v THEN <<Head(sorted)>> \o insertNum(Tail(sorted), v)
    ELSE <<v>> \o sorted

RECURSIVE sortNums(_)
sortNums(q) ==
    IF q = <<>> THEN <<>>
    ELSE insertNum(sortNums(Tail(q)), Head(q))

\* b["bbox"][1] <= page_height * 0.15
HeaderPercent == 15

inHeader(b, page_height) == b.bbox[2] * 100 <= page_height * HeaderPercent

\* lines 187-191; font sizes are in half points
sizesOf(bs) ==
    LET all == [i \in 1..Len(bs) |-> bs[i].size]
    IN SelectSeq(all, truthy)

middle(sorted) == sorted[(Len(sorted) \div 2) + 1]

median_size(bs) ==
    IF sizesOf(bs) = <<>> THEN Null ELSE middle(sortNums(sizesOf(bs)))

\* len(text.split())
RECURSIVE wordCount(_, _)
wordCount(s, inWord) ==
    IF s = <<>> THEN 0
    ELSE IF IsSpace(Head(s)) THEN wordCount(Tail(s), FALSE)
    ELSE (IF inWord THEN 0 ELSE 1) + wordCount(Tail(s), TRUE)

\* text.rstrip(":")
RECURSIVE rstripColon(_)
rstripColon(s) ==
    IF endswith(s, ":") THEN rstripColon(SubSeq(s, 1, Len(s) - 1)) ELSE s

\* 1.5 points, in half points
SizeMargin == 3
ShortLen == 40
MaxWords == 4

\* lines 195-201
is_heading(b, median) ==
    LET text == strip(b.text)
    IN \/ truthy(b.size) /\ truthy(median) /\ b.size >= median + SizeMargin
       \/ endswith(text, ":")
       \/ Len(text) < ShortLen /\ upper(text) = text /\ wordCount(text, FALSE) <= MaxWords

General == <<"G","e","n","e","r","a","l">>

\* (variant: the colon kept)
sectionNameRaw(b) == strip(b.text)

\* line 211
sectionName(b) == rstripColon(strip(b.text))

closeSection(sec) == [sec EXCEPT !.bbox = round_bbox(unionBox(sec.lines))]

\* The loop of lines 194-213 over the sorted blocks still to read; st is
\* [sections, current].
RECURSIVE sectionLoop(_, _, _)
sectionLoop(bs, median, st) ==
    IF bs = <<>> THEN st
    ELSE LET b == Head(bs)
         IN IF is_heading(b, median)
            THEN sectionLoop(Tail(bs), median,
                    [sections |-> IF st.current.lines # <<>>
                                  THEN Append(st.sections, closeSection(st.current))
                                  ELSE st.sections,
                     current |-> [name |-> sectionName(b), lines |-> <<b>>, bbox |-> <<>>]])
            ELSE sectionLoop(Tail(bs), median,
                    [st EXCEPT !.current.lines = Append(st.current.lines, b)])

\* header: None, or {"bbox": ..., "lines": ...} whose bbox is None (here
\* <<>>) when no span lies in the top of the page.
headerOf(items) ==
    [null |-> FALSE,
     bbox |-> IF items = <<>> THEN <<>> ELSE round_bbox(unionBox(items)),
     lines |-> items]

detect_head_and_sections(bs, page_height) ==
    IF bs = <<>>
    THEN [header |-> [null |-> TRUE, bbox |-> <<>>, lines |-> <<>>], sections |-> <<>>]
    ELSE LET sorted_blocks == sortByTop(bs)
             header_items ==
                 SelectSeq(sorted_blocks, LAMBDA b : inHeader(b, page_height))
             st == sectionLoop(sorted_blocks, median_size(bs),
                      [sections |-> <<>>,
                       current |-> [name |-> General, lines |-> <<>>, bbox |-> <<>>]])
             sections == IF st.current.lines # <<>>
                         THEN Append(st.sections, closeSection(st.current))
                         ELSE st.sections
         IN [header |-> headerOf(header_items), sections |-> sections]


----------------------------------------------------------------------------
(* Python values as json sees them.  t is the type; n the value of an int, *)
(* or of a float in thousandths; s the characters of a str; a the items of *)
(* a list or tuple, or the values of a dict whose keys, in insertion       *)
(* order, are k.                                                           *)

PyVal(t, n, s, k, a) == [t |-> t, n |-> n, s |-> s, k |-> k, a |-> a]

PyNone == PyVal("null", 0, <<>>, <<>>, <<>>)
PyInt(n) == PyVal("int", n, <<>>, <<>>, <<>>)
PyFloat(n) == PyVal("float", n, <<>>, <<>>, <<>>)
PyStr(s) == PyVal("str", 0, s, <<>>, <<>>)
PyList(a) == PyVal("list", 0, <<>>, <<>>, a)
PyTuple(a) == PyVal("tuple", 0, <<>>, <<>>, a)
PyDict(k, a) == PyVal("dict", 0, <<>>, k, a)

\* d[key] of a dict that has the key
pyGet(d, key) == d.a[CHOOSE i \in 1..Len(d.k) : d.k[i] = key]

pyHas(d, key) == d.t = "dict" /\ \E i \in 1..Len(d.k) : d.k[i] = key

\* the keys of the template
K_text == <<"t","e","x","t">>
K_size == <<"s","i","z","e">>
K_bbox == <<"b","b","o","x">>
K_block_no == <<"b","l","o","c","k","_","n","o">>
K_zone_index == <<"z","o","n","e","_","i","n","d","e","x">>
K_items == <<"i","t","e","m","s">>
K_header == <<"h","e","a","d","e","r">>
K_lines == <<"l","i","n","e","s">>
K_sections == <<"s","e","c","t","i","o","n","s">>
K_name == <<"n","a","m","e">>
K_source_pdf == <<"s","o","u","r","c","e","_","p","d","f">>
K_page_width == <<"p","a","g","e","_","w","i","d","t","h">>
K_page_height == <<"p","a","g","e","_","h","e","i","g","h","t">>
K_num_blocks == <<"n","u","m","_","b","l","o","c","k","s">>
K_zones == <<"z","o","n","e","s">>
K_detection == <<"d","e","t","e","c","t","i","o","n">>


\* a font size in half points, as a float
sizeFloat(size) == IF size = Null THEN PyNone ELSE PyFloat(size * 500)

\* _round_bbox returns a tuple
bboxTuple(bbox) == PyTuple([i \in 1..Len(bbox) |-> PyFloat(bbox[i])])

\* the item of lines 91-99
spanDict(b) ==
    PyDict(<<K_text, K_size, K_bbox, K_block_no>>,
           <<PyStr(b.text), sizeFloat(b.size), bboxTuple(b.bbox), PyInt(b.block_no)>>)

spanList(bs) == PyList([i \in 1..Len(bs) |-> spanDict(bs[i])])

\* line 158
zoneDict(z) ==
    PyDict(<<K_zone_index, K_bbox, K_items>>,
           <<PyInt(z.zone_index), bboxTuple(z.bbox), spanList(z.items)>>)

\* lines 193, 208-211
sectionDict(sec) ==
    PyDict(<<K_name, K_lines, K_bbox>>,
           <<PyStr(sec.name), spanList(sec.lines), bboxTuple(sec.bbox)>>)

\* lines 170, 222
headerDict(h) ==
    IF h.null THEN PyNone
    ELSE PyDict(<<K_bbox, K_lines>>,
                <<IF h.bbox = <<>> THEN PyNone ELSE bboxTuple(h.bbox),
                  spanList(h.lines)>>)

detectionDict(d) ==
    PyDict(<<K_header, K_sections>>,
           <<headerDict(d.header),
             PyList([i \in 1..Len(d.sections) |-> sectionDict(d.sections[i])])>>)

\* os.path.abspath(pdf_path) of the reference document
SourcePdf == <<"C",":",BACKSLASH,"c","v",".","p","d","f">>

\* the width of the reference page, in thousandths
PageWidth == 612000

\* lines 256-263
templateDict(pg, bs, zs, d) ==
    PyDict(<<K_source_pdf, K_page_width, K_page_height, K_num_blocks, K_zones, K_detection>>,
           <<PyStr(SourcePdf), PyFloat(PageWidth), PyFloat(pg.page_height),
             PyInt(Len(bs)),
             PyList([i \in 1..Len(zs) |-> zoneDict(zs[i])]),
             detectionDict(d)>>)

----------------------------------------------------------------------------
(* json.dump and json.load.  The text of a file is the sequence of its     *)
(* lexemes, each a sequence of characters; the white space that indent=2   *)
(* puts between lexemes carries no value and is left out.                  *)

Digits == <<"0","1","2","3","4","5","6","7","8","9">>

RECURSIVE digitsOf(_)
digitsOf(n) ==
    IF n < 10 THEN <<Digits[n + 1]>>
    ELSE Append(digitsOf(n \div 10), Digits[(n % 10) + 1])

\* int.__repr__
reprInt(n) == IF n < 0 THEN <<"-">> \o digitsOf(0 - n) ELSE digitsOf(n)

RECURSIVE stripZeros(_)
stripZeros(s) ==
    IF Len(s) > 1 /\ s[Len(s)] = "0" THEN stripZeros(SubSeq(s, 1, Len(s) - 1)) ELSE s

\* the three decimals of a value in thousandths
decimals(f) == <<Digits[(f \div 100) + 1], Digits[((f \div 10) % 10) + 1], Digits[(f % 10) + 1]>>

\* (variant: one decimal written)
reprFloatShort(v) ==
    LET m == IF v < 0 THEN 0 - v ELSE v
    IN (IF v < 0 THEN <<"-">> ELSE <<>>)
       \o digitsOf(m \div 1000) \o <<".">> \o SubSeq(decimals(m % 1000), 1, 1)

\* float.__repr__: the shortest decimal that reads back as the same float,
\* with at least one decimal
reprFloat(v) ==
    LET m == IF v < 0 THEN 0 - v ELSE v
    IN (IF v < 0 THEN <<"-">> ELSE <<>>)
       \o digitsOf(m \div 1000) \o <<".">> \o stripZeros(decimals(m % 1000))

L_null == <<"n","u","l","l">>

\* the lexemes of the items, a comma between two of them
RECURSIVE lexJoin(_)
lexJoin(items) ==
    IF items = <<>> THEN <<>>
    ELSE IF Len(items) = 1 THEN Head(items)
    ELSE Head(items) \o <<<<",">>>> \o lexJoin(Tail(items))

RECURSIVE dumpVal(_)
dumpVal(v) ==
    IF v.t = "null" THEN <<L_null>>
    ELSE IF v.t = "int" THEN <<reprInt(v.n)>>
    ELSE IF v.t = "float" THEN <<reprFloat(v.n)>>
    ELSE IF v.t = "str" THEN <<jsonStr(v.s)>>
    ELSE IF v.t = "dict"
    THEN <<<<"{">>>>
         \o lexJoin([i \in 1..Len(v.k) |->
                <<jsonStr(v.k[i]), <<":">>>> \o dumpVal(v.a[i])])
         \o <<<<"}">>>>
    ELSE <<<<"[">>>> \o lexJoin([i \in 1..Len(v.a) |-> dumpVal(v.a[i])]) \o <<<<"]">>>>

\* json.dump(template, f, indent=2)
json_dump(v) == dumpVal(v)

\* the characters of a string lexeme between its quotes, escapes undone;
\* not .ok when a quote stands unescaped or an escape is not one of JSON's.
\* A character is escaped when an odd number of backslashes stands right
\* before it; the others begin a unit, a backslash one of two characters.
unescape(s) ==
    LET n == Len(s)
        run(i) == CHOOSE k \in 0..(i - 1) :
                      /\ \A j \in (i - k)..(i - 1) : s[j] = BACKSLASH
                      /\ (k = i - 1 \/ s[i - k - 1] # BACKSLASH)
        starts == SelectSeq([i \in 1..n |-> i], LAMBDA i : run(i) % 2 = 0)
        valid(i) == IF s[i] = BACKSLASH
                    THEN i < n /\ s[i + 1] \in {QUOTE, BACKSLASH, "t", "n"}
                    ELSE s[i] # QUOTE
        char(i) == IF s[i] # BACKSLASH THEN s[i]
                   ELSE IF s[i + 1] = "t" THEN "\t"
                   ELSE IF s[i + 1] = "n" THEN NL
                   ELSE s[i + 1]
    IN IF \A k \in 1..Len(starts) : valid(starts[k])
       THEN [ok |-> TRUE, s |-> [k \in 1..Len(starts) |-> char(starts[k])]]
       ELSE [ok |-> FALSE, s |-> <<>>]

isDigits(s) == s # <<>> /\ \A i \in 1..Len(s) : IndexIn(s[i], Digits) > 0

RECURSIVE intOf(_)
intOf(s) ==
    IF s = <<>> THEN 0
    ELSE intOf(SubSeq(s, 1, Len(s) - 1)) * 10 + (IndexIn(s[Len(s)], Digits) - 1)

\* the decimals read as thousandths
thousandths(s) == intOf(Take(s \o <<"0","0","0">>, 3))

Fail == [ok |-> FALSE, v |-> PyNone, i |-> 0]

Ok(v, i) == [ok |-> TRUE, v |-> v, i |-> i]

\* a number lexeme: an int without a decimal point, a float with one
parseNumber(lex, i) ==
    LET neg == lex # <<>> /\ Head(lex) = "-"
        body == IF neg THEN Tail(lex) ELSE lex
        dot == IndexIn(".", body)
        sign(n) == IF neg THEN 0 - n ELSE n
    IN IF dot = 0
       THEN (IF isDigits(body) THEN Ok(PyInt(sign(intOf(body))), i) ELSE Fail)
       ELSE LET ip == SubSeq(body, 1, dot - 1)
                fp == SubSeq(body, dot + 1, Len(body))
            IN IF isDigits(ip) /\ isDigits(fp)
               THEN Ok(PyFloat(sign(intOf(ip) * 1000 + thousandths(fp))), i)
               ELSE Fail

parseString(lex) ==
    IF Len(lex) >= 2 /\ Head(lex) = QUOTE /\ lex[Len(lex)] = QUOTE
    THEN unescape(SubSeq(lex, 2, Len(lex) - 1))
    ELSE [ok |-> FALSE, s |-> <<>>]

\* The decoder reads the value that starts at lexeme i and tells where the
\* next one starts; arrays are read as lists.
RECURSIVE parseValue(_, _)
RECURSIVE parseItems(_, _, _)
RECURSIVE parseMembers(_, _, _, _)

lexAt(toks, i) == IF i <= Len(toks) THEN toks[i] ELSE <<>>

parseValue(toks, i) ==
    LET lex == lexAt(toks, i)
    IN IF lex = <<>> THEN Fail
       ELSE IF lex = <<"{">>
       THEN (IF lexAt(toks, i + 1) = <<"}">> THEN Ok(PyDict(<<>>, <<>>), i + 2)
             ELSE parseMembers(toks, i + 1, <<>>, <<>>))
       ELSE IF lex = <<"[">>
       THEN (IF lexAt(toks, i + 1) = <<"]">> THEN Ok(PyList(<<>>), i + 2)
             ELSE parseItems(toks, i + 1, <<>>))
       ELSE IF lex = L_null THEN Ok(PyNone, i + 1)
       ELSE IF Head(lex) = QUOTE
       THEN LET r == parseString(lex)
            IN IF r.ok THEN Ok(PyStr(r.s), i + 1) ELSE Fail
       ELSE parseNumber(lex, i + 1)

parseItems(toks, i, acc) ==
    LET r == parseValue(toks, i)
    IN IF ~r.ok THEN Fail
       ELSE IF lexAt(toks, r.i) = <<",">> THEN parseItems(toks, r.i + 1, Append(acc, r.v))
       ELSE IF lexAt(toks, r.i) = <<"]">> THEN Ok(PyList(Append(acc, r.v)), r.i + 1)
       ELSE Fail

\* a later member of the same key replaces the earlier one, in its place
parseMembers(toks, i, ks, vs) ==
    LET key == parseString(lexAt(toks, i))
    IN IF ~key.ok \/ lexAt(toks, i + 1) # <<":">> THEN Fail
       ELSE LET r == parseValue(toks, i + 2)
                at == IndexIn(key.s, ks)
                ks1 == IF at = 0 THEN Append(ks, key.s) ELSE ks
                vs1 == IF at = 0 THEN Append(vs, r.v) ELSE [vs EXCEPT ![at] = r.v]
            IN IF ~r.ok THEN Fail
               ELSE IF lexAt(toks, r.i) = <<",">> THEN parseMembers(toks, r.i + 1, ks1, vs1)
               ELSE IF lexAt(toks, r.i) = <<"}">> THEN Ok(PyDict(ks1, vs1), r.i + 1)
               ELSE Fail

\* json.load(f): the whole text is one value
json_load(toks) ==
    LET r == parseValue(toks, 1)
    IN IF r.ok /\ r.i = Len(toks) + 1 THEN Return(r.v) ELSE Raise("JSONDecodeError")

\* layout_parser.save_template: what the file holds afterwards
save_template(template) == json_dump(template)

\* layout_parser.load_template
load_template(text) == json_load(text)

----------------------------------------------------------------------------
(* parse_template, lines 247-254, on one page.                             *)

\* The chain takes no part in parsing a template.
ChainIdle ==
    /\ enhanced_text = <<>>
    /\ templateFile = [state |-> "missing", json |-> JsonArray]
    /\ env = [api_key |-> FALSE, pdfshift |-> "unused",
              reportlab |-> "ok", platypus |-> "ok"]
    /\ pc = "off"
    /\ mapped = Unbound
    /\ pdf_data = <<>>
    /\ attempts = <<>>
    /\ propagated = FALSE

Extract ==
    /\ ppc = "page"
    /\ blocks' = extract(page)
    /\ ppc' = "extracted"
    /\ UNCHANGED <<page, num_zones, zones, detection, stored, loaded, chainVars, renderVars, appVars>>

GroupZones ==
    /\ ppc = "extracted"
    /\ zones' = group_blocks_into_zones(blocks, page.page_height, num_zones)
    /\ ppc' = IF zones'.raised THEN "raised" ELSE "zoned"
    /\ UNCHANGED <<page, num_zones, blocks, detection, stored, loaded, chainVars, renderVars, appVars>>

Detect ==
    /\ ppc = "zoned"
    /\ detection' = detect_head_and_sections(blocks, page.page_height)
    /\ ppc' = "template"
    /\ UNCHANGED <<page, num_zones, blocks, zones, stored, loaded, chainVars, renderVars, appVars>>

\* The template of the page, once detection is done (lines 256-263).
template == templateDict(page, blocks, zones.value, detection)

\* save_template(tmpl, out), as the command line runner does after parsing
Save ==
    /\ ppc = "template"
    /\ stored' = save_template(template)
    /\ ppc' = "saved"
    /\ UNCHANGED <<page, num_zones, blocks, zones, detection, loaded, chainVars, renderVars, appVars>>

\* load_template(path): of the file just saved, or of a file found on disk
Load ==
    /\ ppc \in {"saved", "file"}
    /\ loaded' = load_template(stored)
    /\ ppc' = IF ppc = "saved" THEN "loaded" ELSE "read"
    /\ UNCHANGED <<page, num_zones, blocks, zones, detection, stored, chainVars, renderVars, appVars>>

\* Spans as the page holds them; lengths in thousandths of a unit.
RawSpan(text, size, y0, y1) ==
    [text |-> text, size |-> size,
     bbox |-> <<72000, y0, 72000 + 6004 * Len(text), y1>>]

SpanPool ==
    { RawSpan(<<"J","O","H","N"," ","D","O","E">>, 32, 40000, 60000),
      RawSpan(<<"E","x","p","e","r","i","e","n","c","e",":">>, 24, 290000, 310000),
      RawSpan(<<"b","u","i","l","t"," ","x">>, 20, 540000, 560000),
      RawSpan(<<"S","k","i","l","l","s">>, 26, 90000, 110000),
      RawSpan(<<"2","0","2","0">>, Null, 0 - 30000, 10000),
      RawSpan(<<"b","u","i","l","t"," ","x">>, 20, 0 - 1300000, 0 - 1100000),
      RawSpan(<<"A"," ","B"," ","C"," ","D"," ","E">>, 22, 590000, 650000),
      RawSpan(<<" ">>, 20, 200000, 210000),
      RawSpan(Rep(<<"A">>, ShortLen), 20, 123456, 133333),
      RawSpan(Rep(<<"A">>, ShortLen - 1), 20, 90004, 99996),
      RawSpan(<<"N","o","t","e",":",":">>, 20, 400000, 410005) }

RECURSIVE SeqsUpTo(_, _)
SeqsUpTo(S, n) ==
    IF n = 0 THEN {<<>>}
    ELSE LET shorter == SeqsUpTo(S, n - 1)
         IN shorter \cup {Append(q, x) : q \in shorter, x \in S}

PageHeights == {600000}

NoDetection == [header |-> [null |-> TRUE, bbox |-> <<>>, lines |-> <<>>],
                sections |-> <<>>]

NoPage == [page_height |-> 0, spans |-> <<>>, backend |-> "none"]

\* Files a template may be loaded from: written by save_template for a page
\* without text, or by anything else.
EmptyPageFile ==
    save_template(templateDict([page_height |-> 600000], <<>>, <<>>, NoDetection))

EmptyObjectFile == << <<"{">>, <<"}">> >>

EmptyArrayFile == << <<"[">>, <<"]">> >>

\* no "zones", no "detection"
MissingFieldsFile ==
    json_dump(PyDict(<<K_page_width, K_page_height, K_num_blocks>>,
                     <<PyFloat(PageWidth), PyFloat(600000), PyInt(0)>>))

\* a string for the page height, an object for the zones
WrongTypesFile ==
    json_dump(PyDict(<<K_page_width, K_page_height, K_num_blocks, K_zones, K_detection>>,
                     <<PyFloat(PageWidth), PyStr(<<"t","a","l","l">>), PyInt(0),
                       PyDict(<<>>, <<>>), detectionDict(NoDetection)>>))

\* cut off in the middle
TruncatedFile == SubSeq(EmptyPageFile, 1, Len(EmptyPageFile) - 3)

FoundFiles ==
    { EmptyPageFile, EmptyObjectFile, EmptyArrayFile, MissingFieldsFile,
      WrongTypesFile, TruncatedFile }

\* The parser's functions on a reference page.
InitParse ==
    /\ page \in [page_height : PageHeights,
                  spans : SeqsUpTo(SpanPool, MaxSpans),
                  backend : {"fitz", "pdfplumber"}]
    /\ num_zones \in {1, MaxZones - 1, MaxZones}
    /\ stored = <<>>
    /\ ppc = "page"
    /\ blocks = <<>>
    /\ zones = Return(<<>>)
    /\ detection = NoDetection
    /\ loaded = Return(<<>>)
    /\ ChainIdle
    /\ RenderIdle
    /\ AppIdle

NextParse == Extract \/ GroupZones \/ Detect

SpecParse == InitParse /\ [][NextParse]_vars

\* The template store: either parse_template runs on a reference page of at
\* most MaxStored spans (with its own number of zones, line 253) and the
\* template is saved and loaded again, or a file found on disk is loaded.
InitStore ==
    /\ \/ /\ page \in [page_height : PageHeights,
                        spans : SeqsUpTo(SpanPool, MaxStored),
                        backend : {"fitz", "pdfplumber"}]
          /\ num_zones = MaxZones
          /\ stored = <<>>
          /\ ppc = "page"
       \/ /\ page = NoPage
          /\ num_zones = MaxZones
          /\ stored \in FoundFiles
          /\ ppc = "file"
    /\ blocks = <<>>
    /\ zones = Return(<<>>)
    /\ detection = NoDetection
    /\ loaded = Return(<<>>)
    /\ ChainIdle
    /\ RenderIdle
    /\ AppIdle

NextStore == Extract \/ GroupZones \/ Detect \/ Save \/ Load

SpecStore == InitStore /\ [][NextStore]_vars


----------------------------------------------------------------------------
(* Claims about the template parser.                                       *)

Zoned == ppc \in {"zoned", "template", "raised", "saved", "loaded"}

\* the number of places (zone, position) of the returned zones that hold
\* the span extracted as block number no
PlacesOf(no) ==
    Cardinality({ zp \in (1..Len(zones.value)) \X (1..MaxSpans + 1) :
                    /\ zp[2] <= Len(zones.value[zp[1]].items)
                    /\ zones.value[zp[1]].items[zp[2]].block_no = no })

\* C5: group_blocks_into_zones puts every span in exactly one zone, and the
\* member lists of the returned zones hold the input spans and nothing else.
C5_ZonePartition ==
    Zoned =>
        /\ ~zones.raised
        /\ \A i \in 1..Len(blocks) : PlacesOf(blocks[i].block_no) = 1
        /\ \A z \in 1..Len(zones.value) :
              \A j \in 1..Len(zones.value[z].items) :
                  \E i \in 1..Len(blocks) : blocks[i] = zones.value[z].items[j]

\* floor(center / bandHeight) clamped to [0, n-1], from the place of the
\* center among the bands [k * H / n, (k+1) * H / n)
ClampedBand(b, H, n) ==
    LET c2 == b.bbox[2] + b.bbox[4]
    IN IF c2 < 0 THEN 0
       ELSE IF c2 >= 2 * H THEN n - 1
       ELSE CHOOSE k \in 0..(n - 1) :
                2 * H * k <= c2 * n /\ c2 * n < 2 * H * (k + 1)

\* C6: the zone index given to a span is floor(center / bandHeight) clamped
\* to [0, N-1], also for a center below 0 or at or beyond the page height.
C6_ClampedIndex ==
    Zoned =>
        /\ ~zones.raised
        /\ \A z \in 1..Len(zones.value) :
              \A j \in 1..Len(zones.value[z].items) :
                  zones.value[z].zone_index =
                      ClampedBand(zones.value[z].items[j], page.page_height, num_zones)

\* the bands that hold the center of at least one span
OccupiedBands ==
    { ClampedBand(blocks[i], page.page_height, num_zones) : i \in 1..Len(blocks) }

\* C7: exactly one zone is returned for each band with at least one member
\* and none for an empty band, in ascending zone_index order, each with the
\* union of its members' boxes as bbox; no span gives no zone.
C7_ZonePerOccupiedBand ==
    Zoned =>
        /\ ~zones.raised
        /\ Len(zones.value) = Cardinality(OccupiedBands)
        /\ \A z \in 1..Len(zones.value) :
              /\ zones.value[z].zone_index \in OccupiedBands
              /\ zones.value[z].items # <<>>
              /\ zones.value[z].bbox = unionBox(zones.value[z].items)
              /\ (z > 1 => zones.value[z - 1].zone_index < zones.value[z].zone_index)


Detected == ppc \in {"template", "saved", "loaded"}

\* the blocks whose top lies in the top 15% of the page
TopBlocks ==
    { i \in 1..Len(blocks) :
        blocks[i].bbox[2] * 100 <= page.page_height * HeaderPercent }

\* C8: the header holds exactly the spans whose top y is <= 15% of the page
\* height, with their union as bbox; when no span qualifies, the empty page
\* included, the header is null.
C8_Header ==
    Detected =>
        IF TopBlocks = {}
        THEN detection.header.null
        ELSE /\ ~detection.header.null
             /\ Len(detection.header.lines) = Cardinality(TopBlocks)
             /\ \A i \in TopBlocks :
                   \E j \in 1..Len(detection.header.lines) :
                       detection.header.lines[j] = blocks[i]
             /\ detection.header.bbox = unionBox(detection.header.lines)

\* the font sizes reported, as a bag: the number of blocks of each size
ReportedSizes == { blocks[i].size : i \in {j \in 1..Len(blocks) : truthy(blocks[j].size)} }

CountBelow(v) == Cardinality({ i \in 1..Len(blocks) : truthy(blocks[i].size) /\ blocks[i].size < v })
CountAbove(v) == Cardinality({ i \in 1..Len(blocks) : truthy(blocks[i].size) /\ blocks[i].size > v })
CountReported == Cardinality({ i \in 1..Len(blocks) : truthy(blocks[i].size) })

\* the two middle values of the reported sizes (the same value when their
\* number is odd): the median is their mean
LowerMiddle ==
    CHOOSE v \in ReportedSizes :
        CountBelow(v) < (CountReported + 1) \div 2 /\ CountAbove(v) <= CountReported \div 2
UpperMiddle ==
    CHOOSE v \in ReportedSizes :
        CountBelow(v) <= CountReported \div 2 /\ CountAbove(v) < (CountReported + 1) \div 2
TwiceMedian == LowerMiddle + UpperMiddle

WordStarts(text) ==
    { i \in 1..Len(text) : ~IsSpace(text[i]) /\ (i = 1 \/ IsSpace(text[i - 1])) }

\* the heading rule as the claim states it, on the trimmed text of a span
StatedHeading(b) ==
    LET text == strip(b.text)
    IN \/ /\ truthy(b.size)
          /\ ReportedSizes # {}
          /\ 2 * b.size >= TwiceMedian + 2 * SizeMargin
       \/ (text # <<>> /\ text[Len(text)] = ":")
       \/ /\ Len(text) < ShortLen
          /\ \A i \in 1..Len(text) : IndexIn(text[i], LowerChars) = 0
          /\ Cardinality(WordStarts(text)) <= MaxWords

\* C9: a span is a heading exactly when its size and the median are known
\* and size >= median + 1.5, or its text ends with a colon, or its text is
\* shorter than 40 characters, upper-case and of at most 4 words; the median
\* is that of the sizes the spans report.
C9_HeadingRule ==
    Detected =>
        \A i \in 1..Len(blocks) :
            is_heading(blocks[i], median_size(blocks)) <=> StatedHeading(blocks[i])


Sections == detection.sections

HeadingSpan(b) == is_heading(b, median_size(blocks))

\* name is text without the colons that end it
IsTextWithoutColon(name, text) ==
    /\ (name = <<>> \/ name[Len(name)] # ":")
    /\ Len(name) <= Len(text)
    /\ \A i \in 1..Len(text) :
          IF i <= Len(name) THEN text[i] = name[i] ELSE text[i] = ":"

\* C10: a heading span closes the current section and opens one named after
\* its text without the trailing colon; a span that is no heading joins the
\* current section; the section of the spans before the first heading is
\* named "General".
C10_SectionsFollowHeadings ==
    Detected =>
        /\ \A k \in 1..Len(Sections) :
              /\ Sections[k].lines # <<>>
              /\ \A j \in 2..Len(Sections[k].lines) :
                    ~HeadingSpan(Sections[k].lines[j])
              /\ IF HeadingSpan(Sections[k].lines[1])
                 THEN IsTextWithoutColon(Sections[k].name,
                                         strip(Sections[k].lines[1].text))
                 ELSE k = 1 /\ Sections[k].name = General
        /\ Cardinality({ i \in 1..Len(blocks) : HeadingSpan(blocks[i]) })
              = Cardinality({ k \in 1..Len(Sections) :
                                HeadingSpan(Sections[k].lines[1]) })

\* A span before the first heading, then a heading ending with a colon and
\* a span after it.
C10_Witness ==
    /\ Detected
    /\ Len(Sections) = 2
    /\ Sections[1].name = General
    /\ Sections[2].name = <<"E","x","p","e","r","i","e","n","c","e">>
    /\ Len(Sections[2].lines) = 2

\* the member lists of the sections, one after the other in section order
RECURSIVE MembersFrom(_)
MembersFrom(k) ==
    IF k > Len(Sections) THEN <<>> ELSE Sections[k].lines \o MembersFrom(k + 1)

Members == MembersFrom(1)

\* C11: the sections are contiguous in reading order and disjoint: every
\* input span is a member of exactly one section, at one place, and the
\* member lists read in section order are the input spans from top to
\* bottom by top y.
C11_SectionsInReadingOrder ==
    Detected =>
        /\ Len(Members) = Len(blocks)
        /\ \A i \in 1..Len(blocks) :
              Cardinality({ j \in 1..Len(Members) : Members[j] = blocks[i] }) = 1
        /\ \A j \in 1..(Len(Members) - 1) :
              Members[j].bbox[2] <= Members[j + 1].bbox[2]

\* Three spans extracted out of reading order and split over two sections.
C11_Witness ==
    /\ Detected
    /\ Len(blocks) = 3
    /\ blocks[1].bbox[2] > blocks[2].bbox[2]
    /\ blocks[2].bbox[2] > blocks[3].bbox[2]
    /\ Len(Sections) = 2

\* C12: zoning, header detection and section detection never raise, for any
\* span list and any number of bands >= 1; a page without spans gives empty
\* structures: no zone, no section.
C12_StepsNeverRaise ==
    /\ ppc # "raised"
    /\ (Zoned => ~zones.raised)
    /\ (Zoned /\ blocks = <<>> /\ ~zones.raised => zones.value = <<>>)
    /\ (Detected /\ blocks = <<>> => detection.sections = <<>>)

\* a and b are equal field for field: the same type (a tuple and a list are
\* both an array of their items), the same int, str and keys, floats within
\* 0.01, and equal items in turn
RECURSIVE SameValue(_, _)
SameValue(a, b) ==
    LET array(v) == v.t \in {"list", "tuple"}
    IN /\ (a.t = b.t \/ (array(a) /\ array(b)))
       /\ (a.t = "int" => a.n = b.n)
       /\ (a.t = "float" => a.n - b.n <= 10 /\ b.n - a.n <= 10)
       /\ a.s = b.s
       /\ a.k = b.k
       /\ Len(a.a) = Len(b.a)
       /\ \A i \in 1..Len(a.a) : SameValue(a.a[i], b.a[i])

\* C13: load_template of what save_template wrote for a template built by
\* parse_template returns a template equal to it, field for field, floats
\* within 0.01.
C13_RoundTrip ==
    ppc = "loaded" =>
        /\ ~loaded.raised
        /\ SameValue(loaded.value, template)

\* A template with a zone, a header and a section of two spans, one of them
\* with two decimals in its box, came back from the file.
C13_Witness ==
    /\ ppc = "loaded"
    /\ ~loaded.raised
    /\ Len(zones.value) >= 1
    /\ ~detection.header.null
    /\ \E k \in 1..Len(Sections) : Len(Sections[k].lines) = 2
    /\ \E i \in 1..Len(blocks) : blocks[i].bbox[3] % 100 # 0
    /\ Len(stored) > 0

\* the value is a template of the persisted format: an object with numbers
\* for the page size, an int for num_blocks, a list of zone objects and a
\* detection object with its header and its list of sections
IsNumber(v) == v.t \in {"int", "float"}

WellFormedTemplate(v) ==
    /\ v.t = "dict"
    /\ pyHas(v, K_page_width) /\ IsNumber(pyGet(v, K_page_width))
    /\ pyHas(v, K_page_height) /\ IsNumber(pyGet(v, K_page_height))
    /\ pyHas(v, K_num_blocks) /\ pyGet(v, K_num_blocks).t = "int"
    /\ pyHas(v, K_zones) /\ pyGet(v, K_zones).t = "list"
    /\ \A i \in 1..Len(pyGet(v, K_zones).a) :
          LET z == pyGet(v, K_zones).a[i]
          IN /\ pyHas(z, K_zone_index) /\ pyHas(z, K_bbox) /\ pyHas(z, K_items)
             /\ pyGet(z, K_zone_index).t = "int"
             /\ pyGet(z, K_items).t = "list"
    /\ pyHas(v, K_detection)
    /\ LET d == pyGet(v, K_detection)
       IN /\ pyHas(d, K_header) /\ pyHas(d, K_sections)
          /\ pyGet(d, K_header).t \in {"null", "dict"}
          /\ pyGet(d, K_sections).t = "list"

\* C14: loading a malformed template file (a required field missing, a field
\* of the wrong type) fails with a format error: what load_template returns
\* is a well-formed template, and what it raises is a format error.
C14_MalformedRejected ==
    ppc = "read" =>
        IF loaded.raised THEN loaded.exc = "JSONDecodeError"
        ELSE WellFormedTemplate(loaded.value)

----------------------------------------------------------------------------
(* layout_engine/layout_renderer.py: render_resume.  Lengths and font      *)
(* sizes are exact fractions of a point where the code computes in binary  *)
(* floats; the page is A4 in whole points.  What the document writer does  *)
(* with the flowables and the styles it is handed is the writer's.         *)

RECURSIVE gcd(_, _)
gcd(a, b) == IF b = 0 THEN a ELSE gcd(b, a % b)

\* the fraction n/d, d > 0, in lowest terms
Frac(n, d) ==
    LET g == gcd(IF n < 0 THEN 0 - n ELSE n, d)
    IN [n |-> n \div g, d |-> d \div g]

FInt(n) == [n |-> n, d |-> 1]

fadd(a, b) ==
    LET g == gcd(a.d, b.d)
    IN Frac(a.n * (b.d \div g) + b.n * (a.d \div g), (a.d \div g) * b.d)

fmul(a, b) ==
    LET g1 == gcd(IF a.n < 0 THEN 0 - a.n ELSE a.n, b.d)
        g2 == gcd(IF b.n < 0 THEN 0 - b.n ELSE b.n, a.d)
    IN Frac((a.n \div g1) * (b.n \div g2), (a.d \div g2) * (b.d \div g1))

\* a / b, b > 0
fdiv(a, b) == fmul(a, [n |-> b.d, d |-> b.n])

fless(a, b) == a.n * b.d < b.n * a.d

fmax(a, b) == IF fless(a, b) THEN b ELSE a

\* reportlab.lib.pagesizes.A4, in whole points
A4 == [width |-> 595, height |-> 842]

DefaultMargin == 50
DefaultFontSize == 11
Helvetica == "Helvetica"

\* the page configuration of the template, defaults for what it leaves out
\* (lines 54, 59, 78, 79)
margins(cfg) ==
    IF cfg.has_margins THEN cfg.margins
    ELSE [top |-> DefaultMargin, left |-> DefaultMargin,
          right |-> DefaultMargin, bottom |-> DefaultMargin]

base_font(cfg) == IF cfg.has_font_family THEN cfg.font_family ELSE Helvetica

base_size(cfg) == IF cfg.has_font_size THEN cfg.font_size ELSE DefaultFontSize

\* lines 60-62
max_height(cfg) == A4.height - (margins(cfg).top + margins(cfg).bottom)

max_width(cfg) == A4.width - (margins(cfg).left + margins(cfg).right)

\* ParagraphStyle(fontName, fontSize, leading)
ParagraphStyle(fontName, fontSize, leading) ==
    [fontName |-> fontName, fontSize |-> FInt(fontSize), leading |-> FInt(leading)]

StyleNames == {"Header", "SectionTitle", "Normal"}

\* lines 80-106
baseStyles(cfg) ==
    [Header |-> ParagraphStyle(base_font(cfg) \o "-Bold", base_size(cfg) + 7, base_size(cfg) + 9),
     SectionTitle |-> ParagraphStyle(base_font(cfg) \o "-Bold", base_size(cfg) + 1, base_size(cfg) + 4),
     Normal |-> ParagraphStyle(base_font(cfg), base_size(cfg), base_size(cfg) + 4)]

\* the width of "M" in thousandths of the font size, from the metrics of
\* the standard fonts
GlyphM(fontName) == IF fontName = "Courier" THEN 600 ELSE 833

stringWidthM(fontName, fontSize) == fmul(Frac(GlyphM(fontName), 1000), fontSize)

\* lines 43-48
estimate_text_height(text, style, width) ==
    LET avg_char_width == stringWidthM(style.fontName, style.fontSize)
        chars_per_line == fdiv(FInt(width), avg_char_width)
        num_lines == fmax(FInt(1), fdiv(FInt(Len(text)), chars_per_line))
    IN fmul(num_lines, style.leading)

\* line 137: the sum over the lines of the text
RECURSIVE sumHeights(_, _, _)
sumHeights(lines, style, width) ==
    IF lines = <<>> THEN FInt(0)
    ELSE IF Len(lines) = 1 THEN estimate_text_height(lines[1], style, width)
    ELSE LET h == Len(lines) \div 2
         IN fadd(sumHeights(SubSeq(lines, 1, h), style, width),
                 sumHeights(SubSeq(lines, h + 1, Len(lines)), style, width))

MinFontSize == 8

\* (variant: the scale applied as it is)
scaled_font_plain(size, scale_factor) ==
    fmax(FInt(MinFontSize), fmul(FInt(size), scale_factor))

\* line 140: max(8, base_size * scale_factor * 1.1)
scaled_font(size, scale_factor) ==
    fmax(FInt(MinFontSize), fmul(fmul(FInt(size), scale_factor), Frac(11, 10)))

\* lines 138-143: the styles after the adaptive fit
fitStyles(sty, size, total, available) ==
    IF fless(FInt(available), total)
    THEN LET scaled == scaled_font(size, fdiv(FInt(available), total))
         IN [s \in StyleNames |->
                [sty[s] EXCEPT !.fontSize = scaled, !.leading = fadd(scaled, FInt(3))]]
    ELSE sty

\* str.replace(old, ""): every occurrence of old taken out, left to right
RECURSIVE removeFrom(_, _)
removeFrom(s, old) ==
    IF s = <<>> THEN <<>>
    ELSE IF Len(s) >= Len(old) /\ SubSeq(s, 1, Len(old)) = old
    THEN removeFrom(SubSeq(s, Len(old) + 1, Len(s)), old)
    ELSE <<Head(s)>> \o removeFrom(Tail(s), old)

removeAll(s, old) ==
    IF Len(old) = 1 THEN SelectSeq(s, LAMBDA c : c # old[1]) ELSE removeFrom(s, old)

startswith(s, prefix) == Len(s) >= Len(prefix) /\ SubSeq(s, 1, Len(prefix)) = prefix

IsLetter(c) == IndexIn(c, LowerChars) > 0 \/ IndexIn(c, UpperChars) > 0

\* str.title(): a letter after a letter in lower case, any other letter in
\* upper case
RECURSIVE titleFrom(_, _)
titleFrom(s, afterLetter) ==
    IF s = <<>> THEN <<>>
    ELSE <<IF afterLetter THEN lowerChar(Head(s)) ELSE upperChar(Head(s))>>
         \o titleFrom(Tail(s), IsLetter(Head(s)))

title(s) == titleFrom(s, FALSE)

\* line 117
Keywords ==
    << <<"e","d","u","c","a","t","i","o","n">>,
       <<"e","x","p","e","r","i","e","n","c","e">>,
       <<"p","r","o","j","e","c","t","s">>,
       <<"s","k","i","l","l","s">>,
       <<"p","r","o","f","i","l","e">> >>

startsWithKeyword(line) ==
    \E i \in 1..Len(Keywords) : startswith(lower(line), lower(Keywords[i]))

HeaderName == <<"H","e","a","d","e","r">>

\* lines 109-121.  The loop reads the lines that are not blank, stripped;
\* a line that starts with a keyword is a heading and sets
\* sections[title] = [] (a new key goes last, a repeated one is emptied in
\* its place), any other line is appended to the section of the last heading
\* read, "Header" before the first.  So the keys are "Header" and then the
\* titles in the order of their first heading, and a key holds the lines
\* read under it after its last heading.
splitSections(text) ==
    LET raw == splitlines(removeAll(text, <<CR>>))
        lines == SelectSeq([i \in 1..Len(raw) |-> strip(raw[i])], LAMBDA l : l # <<>>)
        all == [i \in 1..Len(lines) |-> i]
        heads == SelectSeq(all, LAMBDA i : startsWithKeyword(lines[i]))
        titles == [k \in 1..Len(heads) |-> title(lines[heads[k]])]
        \* the heading (its place in heads) under which line i is read, 0 for none
        under(i) == Len(SelectSeq(heads, LAMBDA j : j <= i))
        current(i) == IF under(i) = 0 THEN HeaderName ELSE titles[under(i)]
        firsts == SelectSeq([k \in 1..Len(heads) |-> k],
                            LAMBDA k : \A m \in 1..(k - 1) : titles[m] # titles[k])
        lastOf(name) == IF \E k \in 1..Len(heads) : titles[k] = name
                        THEN heads[CHOOSE k \in 1..Len(heads) :
                                     /\ titles[k] = name
                                     /\ \A m \in (k + 1)..Len(heads) : titles[m] # name]
                        ELSE 0
        held(name) ==
            LET from == lastOf(name)
                at == SelectSeq(all, LAMBDA i : /\ i > from
                                               /\ ~startsWithKeyword(lines[i])
                                               /\ current(i) = name)
            IN [k \in 1..Len(at) |-> lines[at[k]]]
    IN <<[key |-> HeaderName, val |-> held(HeaderName)]>>
       \o [k \in 1..Len(firsts) |->
              [key |-> titles[firsts[k]], val |-> held(titles[firsts[k]])]]

\* the three characters the source file has in place of the bullet glyph
\* (the glyph's UTF-8 bytes read as Windows-1252)
BulletLiteral == <<"U+00E2", "U+20AC", "U+00A2">>

SpacerHeight == 6

Flowable(kind, style, text, height) ==
    [kind |-> kind, style |-> style, text |-> text, height |-> height]

\* lines 129-133
lineFlowable(line) ==
    IF startswith(line, BulletLiteral) \/ startswith(line, <<"-">>)
    THEN Flowable("list_item", "Normal",
                  strip(removeAll(removeAll(line, BulletLiteral), <<"-">>)), 0)
    ELSE Flowable("paragraph", "Normal", line, 0)

\* lines 126-134, for one section
sectionFlowables(name, lines) ==
    (IF name # HeaderName THEN <<Flowable("heading", "SectionTitle", name, 0)>> ELSE <<>>)
    \o [i \in 1..Len(lines) |-> lineFlowable(lines[i])]
    \o <<Flowable("spacer", "", <<>>, SpacerHeight)>>

\* lines 124-134
RECURSIVE flowables(_)
flowables(secs) ==
    IF secs = <<>> THEN <<>>
    ELSE sectionFlowables(Head(secs).key, Head(secs).val) \o flowables(Tail(secs))

\* doc.build(content) and buffer.getvalue(): the document of the flowables
buildDocument(flow) ==
    PdfDocument(<<Chunk("platypus",
                        [i \in 1..Len(flow) |-> [x |-> 0, y |-> 0, s |-> flow[i].text]])>>)

\* The chain and the parser take no part in a call of render_resume.
chainOnly == <<templateFile, env, pc, mapped, attempts, propagated>>

OthersIdle ==
    /\ templateFile = [state |-> "missing", json |-> JsonArray]
    /\ env = [api_key |-> FALSE, pdfshift |-> "unused",
              reportlab |-> "ok", platypus |-> "ok"]
    /\ pc = "off"
    /\ mapped = Unbound
    /\ attempts = <<>>
    /\ propagated = FALSE
    /\ ParserIdle

\* Lines 53-106: the template loaded, the page measured, the styles made.
Setup ==
    /\ rpc = "start"
    /\ IF ~page_cfg.exists
       THEN rpc' = "raised" /\ UNCHANGED styles
       ELSE rpc' = "styled" /\ styles' = baseStyles(page_cfg)
    /\ UNCHANGED <<enhanced_text, pdf_data, page_cfg, render_sections, content,
                   total_est_height, chainOnly, parseVars, appVars>>

\* Lines 108-121.
SplitText ==
    /\ rpc = "styled"
    /\ render_sections' = splitSections(enhanced_text)
    /\ rpc' = "split"
    /\ UNCHANGED <<enhanced_text, pdf_data, page_cfg, styles, content,
                   total_est_height, chainOnly, parseVars, appVars>>

\* Lines 123-134.
BuildFlowables ==
    /\ rpc = "split"
    /\ content' = flowables(render_sections)
    /\ rpc' = "content"
    /\ UNCHANGED <<enhanced_text, pdf_data, page_cfg, styles, render_sections,
                   total_est_height, chainOnly, parseVars, appVars>>

\* Lines 136-143.
AdaptiveFit ==
    /\ rpc = "content"
    /\ LET total == sumHeights(splitlines(enhanced_text), styles.Normal,
                               max_width(page_cfg))
       IN /\ total_est_height' = total
          /\ styles' = fitStyles(styles, base_size(page_cfg), total, max_height(page_cfg))
    /\ rpc' = "fitted"
    /\ UNCHANGED <<enhanced_text, pdf_data, page_cfg, render_sections, content,
                   chainOnly, parseVars, appVars>>

\* Lines 145-149.
BuildDocument ==
    /\ rpc = "fitted"
    /\ pdf_data' = buildDocument(content)
    /\ rpc' = "done"
    /\ UNCHANGED <<enhanced_text, page_cfg, styles, render_sections, content,
                   total_est_height, chainOnly, parseVars, appVars>>

\* Texts to render.
RenderSamples ==
    { <<>>,
      <<"J","o","h","n",NL,NL,"S","k","i","l","l","s",NL,"-"," ","S","Q","L",NL,
        "*"," ","G","o",NL,BulletGlyph," ","C">>,
      <<"P","r","o","f","i","l","e",CR,NL,"-"," ","a","-","b",CR,NL>>,
      BulletLiteral \o <<" ","x">>,
      <<"E","X","P","E","R","I","E","N","C","E"," ","a","t"," ","a","c","m","e",NL,"x">>,
      <<"S","k","i","l","l","s",NL,"a",NL,"S","k","i","l","l","s",NL,"b">>,
      Rep(<<"x">>, 60),
      <<"a",NL>> \o Rep(<<"x">>, 90) }

RenderTexts == RenderSamples \cup { ManyLines(n) : n \in 1..MaxRenderLines }

PageCfg(hasMargins, tb, hasFamily, family, hasSize, size) ==
    [exists |-> TRUE,
     has_margins |-> hasMargins,
     margins |-> [top |-> tb, left |-> DefaultMargin, right |-> DefaultMargin, bottom |-> tb],
     has_font_family |-> hasFamily, font_family |-> family,
     has_font_size |-> hasSize, font_size |-> size]

MissingTemplate == [PageCfg(FALSE, 0, FALSE, "", FALSE, 0) EXCEPT !.exists = FALSE]

PageCfgs ==
    { MissingTemplate, PageCfg(FALSE, 0, FALSE, "", FALSE, 0) }
    \cup { PageCfg(TRUE, tb, TRUE, family, TRUE, size) :
             tb \in {50, 51}, family \in {"Helvetica", "Courier"}, size \in {6, 10, 16} }

InitRender ==
    /\ enhanced_text \in RenderTexts
    /\ page_cfg \in PageCfgs
    /\ pdf_data = <<>>
    /\ styles = <<>>
    /\ render_sections = <<>>
    /\ content = <<>>
    /\ total_est_height = [n |-> 0, d |-> 1]
    /\ rpc = "start"
    /\ OthersIdle
    /\ AppIdle

NextRender == Setup \/ SplitText \/ BuildFlowables \/ AdaptiveFit \/ BuildDocument

SpecRender == InitRender /\ [][NextRender]_vars

----------------------------------------------------------------------------
(* Claims about the adaptive renderer.                                     *)

Fitted == rpc \in {"fitted", "done"}

\* the available height, the estimated total height, the base font size
Available == FInt(A4.height - (margins(page_cfg).top + margins(page_cfg).bottom))

EstimatedTotal == total_est_height

BaseFontSize == FInt(base_size(page_cfg))

Overflow == fless(Available, EstimatedTotal)

\* the font size applied: that of the styles handed to the document writer
Applied(s) == styles[s].fontSize

\* C17: when the estimated total height exceeds the available height (page
\* height minus top and bottom margins) the font size applied is
\* max(8, base * (available / estimatedTotal) * 1.1); when it does not, the
\* font size stays at its base value; with an estimated height of exactly
\* twice the available height the factor before clamping is 0.55.
C17_AdaptiveFit ==
    Fitted =>
        IF Overflow
        THEN LET factor == fmul(fdiv(Available, EstimatedTotal), Frac(11, 10))
             IN /\ \A s \in StyleNames :
                      Applied(s) = fmax(FInt(8), fmul(BaseFontSize, factor))
                /\ (EstimatedTotal = fmul(FInt(2), Available) => factor = Frac(55, 100))
        ELSE /\ Applied("Normal") = BaseFontSize
             /\ Applied("SectionTitle") = fadd(BaseFontSize, FInt(1))
             /\ Applied("Header") = fadd(BaseFontSize, FInt(7))

\* An estimate of exactly twice the available height, scaled by 0.55 to a
\* size above the floor.
C17_Witness ==
    /\ Fitted
    /\ EstimatedTotal = fmul(FInt(2), Available)
    /\ Applied("Normal") = fmul(BaseFontSize, Frac(55, 100))
    /\ fless(FInt(8), Applied("Normal"))

\* C18: the font size applied is never below the minimum of 8, whatever the
\* base font size, the content and the overflow, no overflow included.
C18_FontFloor ==
    Fitted => \A s \in StyleNames : ~fless(Applied(s), FInt(8))

\* the scale render_resume applies for an estimated height: applied font
\* size over base font size
ScaleFor(total) ==
    fdiv(fitStyles(baseStyles(page_cfg), base_size(page_cfg), total,
                   max_height(page_cfg)).Normal.fontSize,
         BaseFontSize)

\* estimated heights to compare with: those of 0..MaxRenderLines short lines
OtherHeights ==
    { fmul(FInt(n), baseStyles(page_cfg).Normal.leading) : n \in 0..MaxRenderLines }

\* C19: the scale is non-increasing in the estimated height: for the
\* estimated height A of this run and any estimated height B <= A,
\* scale(A) <= scale(B), and for any B >= A, scale(B) <= scale(A).
C19_MonotonicScale ==
    Fitted =>
        LET scaleA == fdiv(Applied("Normal"), BaseFontSize)
        IN \A B \in OtherHeights :
              /\ (~fless(EstimatedTotal, B) => ~fless(ScaleFor(B), scaleA))
              /\ (~fless(B, EstimatedTotal) => ~fless(scaleA, ScaleFor(B)))

Built == rpc \in {"content", "fitted", "done"}

\* the lines of the text as the renderer reads them
RenderLines ==
    LET ls == splitlines(removeAll(enhanced_text, <<CR>>))
    IN [i \in 1..Len(ls) |-> strip(ls[i])]

BulletMarkers == {"-", "*", BulletGlyph}

\* the kind the claim gives the block of a line
StatedKind(line) ==
    IF line = <<>> THEN "spacer"
    ELSE IF Head(line) \in BulletMarkers THEN "list_item"
    ELSE "paragraph"

\* the blocks that are no spacer
TextBlocks == SelectSeq(content, LAMBDA b : b.kind # "spacer")

\* the blocks the claim describes for the sections, spacers left aside
RECURSIVE StatedBlocks(_)
StatedBlocks(secs) ==
    IF secs = <<>> THEN <<>>
    ELSE (IF Head(secs).key # HeaderName THEN <<"heading">> ELSE <<>>)
         \o [i \in 1..Len(Head(secs).val) |-> StatedKind(Head(secs).val[i])]
         \o StatedBlocks(Tail(secs))

\* C20: for each (section name, lines) pair in order a heading block when
\* the section has a name, then one block per line; a line that begins with
\* '-', '*' or the bullet glyph is a list item; a blank line of the text is
\* a spacer of fixed height.  Spacers are left aside when the blocks are
\* compared with the lines; there are at least as many as blank lines.
C20_BlockConstruction ==
    Built =>
        /\ [i \in 1..Len(TextBlocks) |-> TextBlocks[i].kind] = StatedBlocks(render_sections)
        /\ Cardinality({ i \in 1..Len(content) : content[i].kind = "spacer" })
              >= Cardinality({ i \in 1..Len(RenderLines) : RenderLines[i] = <<>> })
        /\ \A i \in 1..Len(content) :
              content[i].kind = "spacer" => content[i].height = SpacerHeight

----------------------------------------------------------------------------
(* Claims about tier 3, streamlit_app.text_to_pdf_bytes, on the runs of    *)
(* the generation step that reach it.                                      *)

Tier3Ran == Len(attempts) = 3 /\ pc = "done"

\* the pages of a document, each the sequence of its drawn strings
PagesOf(doc) ==
    LET ps == SelectSeq(doc, LAMBDA c : c.tag = "page")
    IN [p \in 1..Len(ps) |-> ps[p].body]

RECURSIVE DrawnOn(_)
DrawnOn(pages) ==
    IF pages = <<>> THEN <<>> ELSE Head(pages) \o DrawnOn(Tail(pages))

\* the number of lines that fit on one page: y runs from pageHeight-50 down
\* to 60 in steps of 15
PageCapacity == ((LetterHeight - 50) - 60) \div 15 + 1

\* C22: when the text has more lines than fit on one page, tier 3 truncates:
\* it does not fail, the document has a single page, and that page holds the
\* lines that fit.
C22_OverflowTruncated ==
    (Tier3Ran /\ Len(splitlines(enhanced_text)) > PageCapacity) =>
        LET pages == PagesOf(pdf_data)
        IN /\ ~attempts[3].raised
           /\ Len(pages) = 1
           /\ Len(pages[1]) = PageCapacity

\* C28: every line of the text is drawn exactly once, in input order, cut to
\* its first 110 characters, at a y between 60 and pageHeight-50; on a page
\* y starts at pageHeight-50 and decreases by 15 after each line; a page
\* break happens exactly when y has dropped below 60 before a line is drawn.
C28_EveryLineDrawnOnce ==
    Tier3Ran =>
        LET lines == splitlines(enhanced_text)
            pages == PagesOf(pdf_data)
            drawn == DrawnOn(pages)
        IN /\ Len(drawn) = Len(lines)
           /\ \A i \in 1..Len(lines) :
                 drawn[i].s = IF Len(lines[i]) <= 110 THEN lines[i]
                              ELSE SubSeq(lines[i], 1, 110)
           /\ \A i \in 1..Len(drawn) :
                 drawn[i].y >= 60 /\ drawn[i].y <= LetterHeight - 50
           /\ \A p \in 1..Len(pages) : \A k \in 1..Len(pages[p]) :
                 pages[p][k].y = (LetterHeight - 50) - 15 * (k - 1)
           /\ \A p \in 1..(Len(pages) - 1) :
                 /\ pages[p] # <<>>
                 /\ pages[p][Len(pages[p])].y - 15 < 60
                 /\ pages[p + 1] # <<>>

\* Tier 3 drew a text of more lines than fit on a page: a page break
\* happened and the line after it is on the second page.
C28_Witness ==
    /\ Tier3Ran
    /\ Len(splitlines(enhanced_text)) > PageCapacity
    /\ Len(PagesOf(pdf_data)) = 2
    /\ PagesOf(pdf_data)[2][1].y = LetterHeight - 50

----------------------------------------------------------------------------
(* The mapper keeps the content.                                           *)

RECURSIVE LinesKept(_)
LinesKept(d) == IF d = <<>> THEN 0 ELSE Len(Head(d).val) + LinesKept(Tail(d))

\* C25: the mapper loses no content: every non-blank line of the text that
\* is no section heading line is in exactly one section's list of the
\* result, also when the same heading line occurs more than once.
C25_NoContentLost ==
    (Mapped /\ ~mapped.raised) =>
        LET d == mapped.value.sections
            L == InputLines
            H == HeadingLines(L)
        IN /\ \A i \in (1..Len(L)) \ H :
                 \E a \in 1..Len(d) : \E k \in 1..Len(d[a].val) : d[a].val[k] = L[i]
           /\ LinesKept(d) = Len(L) - Cardinality(H)

----------------------------------------------------------------------------
(* Further claims about render_resume.                                     *)

\* C26: adaptive scaling is only ever a reduction: whatever the estimated
\* height and the base font size, the font size applied is not greater than
\* the base font size.
C26_ScalingOnlyReduces ==
    Fitted => ~fless(BaseFontSize, Applied("Normal"))

\* the lines of all sections, in order
RECURSIVE SectionLines(_)
SectionLines(secs) ==
    IF secs = <<>> THEN <<>> ELSE Head(secs).val \o SectionLines(Tail(secs))

\* the length of the marker a line that is made a list item begins with
MarkerLen(line) == IF startswith(line, <<"-">>) THEN 1 ELSE Len(BulletLiteral)

\* C27: the text of a list item is the line it was made from with only its
\* leading marker and the whitespace around it removed; every other
\* character, a later '-' included, is kept.
C27_OnlyLeadingMarkerRemoved ==
    Built =>
        LET items == SelectSeq(content, LAMBDA b : b.kind = "list_item")
            from == SelectSeq(SectionLines(render_sections),
                              LAMBDA l : startswith(l, <<"-">>)
                                         \/ startswith(l, BulletLiteral))
        IN /\ Len(items) = Len(from)
           /\ \A k \in 1..Len(items) :
                 items[k].text =
                     strip(SubSeq(from[k], MarkerLen(from[k]) + 1, Len(from[k])))

----------------------------------------------------------------------------
(* Claims about tier 2, fallback_renderer.render_fallback_pdf, on the runs *)
(* of the generation step in which it rendered the document.               *)

Tier2Rendered == Len(attempts) = 2 /\ ~attempts[2].raised /\ pc = "done"

\* the style the claim gives a line after the title
StatedStyle(l) ==
    IF endswith(l, ":") \/ (l = upper(l) /\ l # lower(l)) THEN "SectionHeader"
    ELSE "NormalText"

\* the title and the classified lines a content shows
ShownTitle(c) == SelectSeq(c, LAMBDA b : b.style = "HeaderTitle")

ShownLines(c) == SelectSeq(c, LAMBDA b : b.style \in {"SectionHeader", "NormalText"})

\* C21: for every text with a non-empty line, tier 2 takes the first
\* non-empty line as the title; the lines after it are headings when in
\* upper case or ending with a colon, body otherwise.
C21_TitleIsFirstLine ==
    Tier2Rendered =>
        LET L == InputLines
            c == pdf_data[2].body
        IN L # <<>> =>
              /\ ShownTitle(c) = <<Block("paragraph", "HeaderTitle", L[1])>>
              /\ c[1] = ShownTitle(c)[1]
              /\ ShownLines(c) =
                    [k \in 1..(Len(L) - 1) |->
                        Block("paragraph", StatedStyle(L[k + 1]), L[k + 1])]

----------------------------------------------------------------------------
(* generate_resume_pdf on its own: one call on a text and an environment.  *)

ExportTexts ==
    { <<>>,
      <<"a">>,
      <<"a", CR, NL, "b">>,
      <<"a", CR, "b">>,
      <<"a", NL, NL, NL, NL, "b">>,
      <<"a", " ", NL, "b", " ", " ">>,
      <<"-", NL, "a">>,
      <<"a", NL, "-", NL, NL, "b">>,
      <<" ", "-", " ", NL>>,
      <<"a", NL, "-", " ", "b">>,
      <<NL, NL, "a", NL>>,
      <<"-", "-", NL, "-">>,
      <<"a", NL, "-", "-", "-", "-", NL, "b">> }

ExportEnvs ==
    Envs \cup { [e EXCEPT !.pdfshift = "timeout"] : e \in {f \in Envs : f.api_key} }

\* Lines 215-274, one call.
Export ==
    /\ xpc = "call"
    /\ posts' = pdfshift_posts(enhanced_text, env)
    /\ exported' = generate_resume_pdf(enhanced_text, env)
    /\ xpc' = "returned"
    /\ UNCHANGED <<chainVars, parseVars, renderVars, rewriteVars, sessionVars>>

\* The next call, on another text and with other answers.
ExportAgain ==
    /\ xpc = "returned"
    /\ enhanced_text' \in ExportTexts
    /\ env' \in ExportEnvs
    /\ posts' = <<>>
    /\ exported' = None
    /\ xpc' = "call"
    /\ UNCHANGED <<templateFile, pc, mapped, pdf_data, attempts, propagated,
                   parseVars, renderVars, rewriteVars, sessionVars>>

InitExport ==
    /\ enhanced_text \in ExportTexts
    /\ env \in ExportEnvs
    /\ posts = <<>>
    /\ exported = None
    /\ xpc = "call"
    /\ templateFile = [state |-> "missing", json |-> JsonArray]
    /\ pc = "off"
    /\ mapped = Unbound
    /\ pdf_data = <<>>
    /\ attempts = <<>>
    /\ propagated = FALSE
    /\ ParserIdle
    /\ RenderIdle
    /\ RewriteIdle
    /\ SessionIdle

NextExport == Export \/ ExportAgain

SpecExport == InitExport /\ [][NextExport]_vars

----------------------------------------------------------------------------
\* C23: generate_resume_pdf posts to the PDFShift service exactly when an
\* API key is configured; when the call fails (a status other than 200, or
\* an exception of the request) the failure does not leave the function and
\* the result is what the ReportLab fallback gives for the cleaned text, and
\* without a key the result is the ReportLab output directly.
ServiceFailed == env.api_key /\ env.pdfshift # "200"

C23_PdfShiftIffKey ==
    xpc = "returned" =>
        /\ (posts # <<>>) <=> env.api_key
        /\ Len(posts) <= 1
        /\ exported.raised => exported.exc \notin {"RuntimeError", "Timeout"}
        /\ (ServiceFailed \/ ~env.api_key) =>
               exported = reportlab_fallback(clean_markdown(enhanced_text), env)
        /\ (ServiceFailed /\ env.reportlab = "ok") =>
               /\ ~exported.raised
               /\ exported.value[2].tag = "reportlab"

C23_Witness ==
    /\ xpc = "returned"
    /\ ServiceFailed
    /\ env.pdfshift = "timeout"
    /\ ~exported.raised
    /\ exported.value[2].tag = "reportlab"
    /\ clean_markdown(enhanced_text) # enhanced_text

----------------------------------------------------------------------------
(* gpt_client.rewrite_bullet, lines 150-191.  An answer of the rewriting    *)
(* service is what call_chat_completion gives for one call: the exception  *)
(* _do_request raised (configuration missing, a status other than 200, an  *)
(* exception of requests.post), or the text of the first choice.            *)

\* Lines 129-143: the text of the first choice, stripped.
call_chat_completion(answer) ==
    IF answer.raised THEN answer ELSE Return(strip(answer.value))

\* the two requests: lines 157-168 and lines 175-183
FirstCall == [prompt |-> "rewrite"]
SecondCall == [prompt |-> "paraphrase"]

\* Line 174: the answer came back as the bullet was.
sameBullet(text, original) == text = original \/ lower(text) = lower(original)

\* the value and the calls made
Rewrite(result, made) == [result |-> result, calls |-> made]

\* (variant: the handler of lines 187-191 does not cover the second call)
rewrite_bullet_uncaught(original, force, ans) ==
    LET first == call_chat_completion(ans[1])
    IN IF first.raised THEN Rewrite(Return(original), <<FirstCall>>)
       ELSE IF force /\ sameBullet(strip(first.value), original)
            THEN LET second == call_chat_completion(ans[2])
                 IN IF second.raised THEN Rewrite(second, <<FirstCall, SecondCall>>)
                    ELSE Rewrite(Return(strip(second.value)), <<FirstCall, SecondCall>>)
            ELSE Rewrite(Return(strip(first.value)), <<FirstCall>>)

\* Lines 170-191.
rewrite_bullet(original, force, ans) ==
    LET first == call_chat_completion(ans[1])
    IN IF first.raised THEN Rewrite(Return(original), <<FirstCall>>)
       ELSE IF force /\ sameBullet(strip(first.value), original)
            THEN LET second == call_chat_completion(ans[2])
                 IN IF second.raised THEN Rewrite(Return(original), <<FirstCall, SecondCall>>)
                    ELSE Rewrite(Return(strip(second.value)), <<FirstCall, SecondCall>>)
            ELSE Rewrite(Return(strip(first.value)), <<FirstCall>>)

Bullets ==
    { <<>>,
      <<"F","i","x">>,
      <<" ","f","i","x">>,
      <<"f","i","x"," ","i","t">> }

AnswerPool ==
    { Raise("RuntimeError"),
      Return(<<"F","i","x">>),
      Return(<<"F","I","X"," ">>),
      Return(<<" ","f","i","x">>),
      Return(<<"L","e","d"," ","i","t">>),
      Return(<<>>) }

\* the answers to the first and to the second call
MaxCalls == 2
AnswerSeqs == [1..MaxCalls -> AnswerPool]

\* Lines 150-191, one call.
RewriteBullet ==
    /\ wpc = "call"
    /\ LET r == rewrite_bullet(original_bullet, force_paraphrase, answers)
       IN /\ calls' = r.calls
          /\ rewritten' = r.result
    /\ wpc' = "returned"
    /\ UNCHANGED <<original_bullet, force_paraphrase, answers,
                   chainVars, parseVars, renderVars, exportVars, sessionVars>>

\* The next bullet.
NextBullet ==
    /\ wpc = "returned"
    /\ original_bullet' \in Bullets
    /\ force_paraphrase' \in BOOLEAN
    /\ answers' \in AnswerSeqs
    /\ calls' = <<>>
    /\ rewritten' = None
    /\ wpc' = "call"
    /\ UNCHANGED <<chainVars, parseVars, renderVars, exportVars, sessionVars>>

InitRewrite ==
    /\ original_bullet \in Bullets
    /\ force_paraphrase \in BOOLEAN
    /\ answers \in AnswerSeqs
    /\ calls = <<>>
    /\ rewritten = None
    /\ wpc = "call"
    /\ ChainIdle
    /\ ParserIdle
    /\ RenderIdle
    /\ ExportIdle
    /\ SessionIdle

NextRewrite == RewriteBullet \/ NextBullet

SpecRewrite == InitRewrite /\ [][NextRewrite]_vars

----------------------------------------------------------------------------
\* C24: rewrite_bullet calls the rewriting service at most twice for a
\* bullet, the second time only when force_paraphrase is set and the first
\* answer is the original bullet up to case; when a call it made raised, it
\* does not raise and returns the original bullet as it was handed in.
CallRaised == \E i \in 1..Len(calls) : answers[i].raised

C24_AtMostTwoCalls ==
    wpc = "returned" =>
        /\ Len(calls) \in 1..2
        /\ Len(calls) = 2 =>
               /\ force_paraphrase
               /\ ~answers[1].raised
               /\ lower(strip(answers[1].value)) = lower(original_bullet)
        /\ ~rewritten.raised
        /\ CallRaised => rewritten.value = original_bullet

C24_Witness ==
    /\ wpc = "returned"
    /\ Len(calls) = 2
    /\ answers[2].raised
    /\ original_bullet # <<>>
    /\ rewritten = Return(original_bullet)

----------------------------------------------------------------------------
(* gpt_client.enhance_resume_text, lines 194-217: the lines that look like  *)
(* bullets are rewritten one by one.  mode says how the rewriting service   *)
(* answers during this run.                                                 *)

\* len(stripped.split()): the words of a stripped line
splitCount(s) ==
    Cardinality({i \in 1..Len(s) : ~IsSpace(s[i]) /\ (i = 1 \/ IsSpace(s[i - 1]))})

\* Line 207.
MaxBulletWords == 20
is_bullet_like(stripped) ==
    \/ Head(stripped) \in {"-", "*", BulletGlyph}
    \/ splitCount(stripped) <= MaxBulletWords

LedPrefix == <<"L","e","d"," ">>

serviceAnswers(mode, bullet) ==
    LET a == IF mode = "down" THEN Raise("RuntimeError")
             ELSE IF mode = "echo" THEN Return(bullet)
             ELSE Return(LedPrefix \o bullet)
    IN [i \in 1..MaxCalls |-> a]

\* Lines 201-216, one line of the text.
enhanceLine(line, mode) ==
    LET stripped == strip(line)
    IN IF stripped = <<>> THEN <<>>
       ELSE IF is_bullet_like(stripped)
            THEN LET r == rewrite_bullet(stripped, TRUE, serviceAnswers(mode, stripped)).result
                 IN IF r.raised THEN stripped ELSE r.value
            ELSE stripped

enhance_resume_text(parsed_text, mode) ==
    LET lines == splitlines(parsed_text)
    IN joinLines([i \in 1..Len(lines) |-> enhanceLine(lines[i], mode)])

----------------------------------------------------------------------------
(* app/streamlit_app.py, the UI session: every interaction runs the script  *)
(* once, from the session state the run before left (lines 84-158).  At     *)
(* most one button is pressed in a run.                                     *)

Some(v) == [none |-> FALSE, v |-> v]

\* an uploaded file: what parse_resume reads from it, or that reading fails
File(name, readable, text) == [name |-> name, readable |-> readable, text |-> text]

ManyWords == Rep(<<"w", " ">>, MaxBulletWords) \o <<"w">>

Files ==
    { File("a.pdf", TRUE, <<"A","n","n",NL,"-"," ","r","a","n"," ","x">>),
      File("b.pdf", TRUE, <<"B","o","b",NL>> \o ManyWords),
      File("empty.pdf", TRUE, <<>>),
      File("broken.pdf", FALSE, <<>>) }

\* parser.parse_and_extract, lines 167-183: the text, with the sections and
\* skills read off it; an exception of parse_resume leaves it.
parse_and_extract(file) ==
    IF file.readable THEN Return([text |-> file.text]) ELSE Raise("ValueError")

\* Lines 84-89.
FreshSession == [parsed |-> None, ats |-> None, enhanced_text |-> None]

\* Lines 98-100: what the handler of a failed parse leaves of the session.
\* (variant: the failed parse forgets the resume parsed before)
parseFailedClears(ss) == [ss EXCEPT !.parsed = None]

parseFailed(ss) == ss

\* Lines 95-97: what a successful parse stores.
parseStored(ss, parsed) == [ss EXCEPT !.parsed = Some(parsed)]

\* Line 105: "if st.session_state['parsed']", a dict with three keys is true
step2Open(ss) == ~ss.parsed.none

\* Line 131: "if st.session_state.get('enhanced_text')", None and "" are false
step3Open(ss) == ~ss.enhanced_text.none /\ ss.enhanced_text.v # <<>>

\* Lines 131-158: what step 3 displays: the two text areas and the two
\* downloads; reading the text of a parsed result that is None raises.
PreviewChars == 600
Nothing == [kind |-> "nothing"]
Crash == [kind |-> "AttributeError"]
step3(ss) ==
    IF ~step3Open(ss) THEN Nothing
    ELSE IF ss.parsed.none THEN Crash
    ELSE [kind |-> "final",
          original |-> Take(ss.parsed.v.text, PreviewChars),
          enhanced |-> Take(ss.enhanced_text.v, PreviewChars),
          txt_data |-> ss.enhanced_text.v,
          pdf_from |-> ss.enhanced_text.v]

\* The uploader widget gets another file, or is cleared.
Upload ==
    /\ upc # "off"
    /\ uploaded_file' \in {None} \cup {Some(f) : f \in Files}
    /\ uploaded_file' # uploaded_file
    /\ upc' = "rerun"
    /\ shown' = step3(session_state)
    /\ UNCHANGED <<session_state, enhanced_from,
                   chainVars, parseVars, renderVars, exportVars, rewriteVars>>

\* Lines 94-100: "Parse Resume" pressed.
ClickParse ==
    /\ upc # "off"
    /\ ~uploaded_file.none
    /\ LET r == parse_and_extract(uploaded_file.v)
           ss == IF r.raised THEN parseFailed(session_state)
                 ELSE parseStored(session_state, r.value)
       IN /\ session_state' = ss
          /\ upc' = IF r.raised THEN "parsing failed" ELSE "parsed"
          /\ shown' = step3(ss)
    /\ UNCHANGED <<uploaded_file, enhanced_from,
                   chainVars, parseVars, renderVars, exportVars, rewriteVars>>

\* Lines 110-115: "Compute ATS Score" pressed.
ClickScore ==
    /\ upc # "off"
    /\ step2Open(session_state)
    /\ session_state' = [session_state EXCEPT
                            !.ats = Some([scored |-> session_state.parsed.v.text])]
    /\ upc' = "scored"
    /\ shown' = step3(session_state')
    /\ UNCHANGED <<uploaded_file, enhanced_from,
                   chainVars, parseVars, renderVars, exportVars, rewriteVars>>

\* Lines 117-126: "Enhance Resume" pressed; an exception that leaves
\* enhance_resume_text is reported and the session is left as it was.
ClickEnhance ==
    /\ upc # "off"
    /\ step2Open(session_state)
    /\ \E mode \in {"down", "echo", "rewrite", "raise"} :
         LET resume_text == session_state.parsed.v.text
             ss == IF mode = "raise" THEN session_state
                   ELSE [session_state EXCEPT
                            !.enhanced_text = Some(enhance_resume_text(resume_text, mode))]
         IN /\ session_state' = ss
            /\ enhanced_from' = IF mode = "raise" THEN enhanced_from ELSE Some(resume_text)
            /\ upc' = IF mode = "raise" THEN "enhancement failed" ELSE "enhanced"
            /\ shown' = step3(ss)
    /\ UNCHANGED <<uploaded_file,
                   chainVars, parseVars, renderVars, exportVars, rewriteVars>>

InitSession ==
    /\ uploaded_file = None
    /\ session_state = FreshSession
    /\ enhanced_from = None
    /\ shown = Nothing
    /\ upc = "start"
    /\ ChainIdle
    /\ ParserIdle
    /\ RenderIdle
    /\ ExportIdle
    /\ RewriteIdle

NextSession == Upload \/ ClickParse \/ ClickScore \/ ClickEnhance

SpecSession == InitSession /\ [][NextSession]_vars

----------------------------------------------------------------------------
\* C29: in every state of the UI session an enhanced text that is not None
\* comes with a parsed result that is not None, so step 3 never reads the
\* text of a missing parsed result, whatever parse, score and enhance
\* actions ran before, the failed ones included.
C29_EnhancedImpliesParsed ==
    upc # "off" =>
        /\ ~session_state.enhanced_text.none => ~session_state.parsed.none
        /\ shown # Crash

C29_Witness ==
    /\ upc = "parsing failed"
    /\ ~session_state.enhanced_text.none
    /\ ~session_state.parsed.none
    /\ shown.kind = "final"

\* C30: in every state of the UI session the enhanced text, and with it the
\* comparison and the downloads of step 3, was made from the resume that is
\* stored as parsed: after another resume was parsed, no enhanced text made
\* from the resume parsed before is displayed or offered.
C30_EnhancedFromCurrent ==
    (upc # "off" /\ ~session_state.enhanced_text.none) =>
        /\ enhanced_from = Some(session_state.parsed.v.text)
        /\ shown.kind = "final" =>
               shown.original = Take(enhanced_from.v, PreviewChars)

=============================================================================
